---- MODULE Spec2Model ----
(***************************************************************************)
(* Bespin: job queue and status notification.                              *)
(*                                                                         *)
(* The programs of the repository that are modelled:                       *)
(*  - go-bespin API process: the Redis backed JobQueue (queue.JobQueue:    *)
(*    AddJob, StartProcessing, processJob, GetJob, GetJobResult) and the   *)
(*    gorilla WebSocket hub (websocket.Server: run,                        *)
(*    listenForJobCompletions, ServeWs, readPump, writePump) fed by the    *)
(*    Redis pub/sub channel job-completed:<id>.                            *)
(*  - go-bespin-api: the melody based websocket.Server (NotifyJobStatus,   *)
(*    handleConnect, HandleConnection) with its latest-status cache.       *)
(*  - the NestJS API and its web client: JobsController, JobsService,      *)
(*    JobsProcessor and JobsGateway on a Bull queue, and app.vue, which    *)
(*    creates a job and waits for its job-completed:<id> Socket.IO event.  *)
(*  - go-bespin-api: AsynqQueue.GetJobResult and the HTTP handlers         *)
(*    HandleRandomText and HandleWebhook with Service.CreateReceipt;       *)
(*    go-bespin: the HTTP handlers ReceiveWebhook and CreateRandomTextJob. *)
(*  - go-bespin-worker: the Redis backed jobQueue (AddJob, GetJob,         *)
(*    StartProcessing, GetJobResult).                                      *)
(*                                                                         *)
(* run() and listenForJobCompletions share s.clients without a lock: their  *)
(* steps interleave, and the runtime may end the process when it detects   *)
(* the concurrent access.                                                  *)
(*                                                                         *)
(* Redis is one store shared by all goroutines: each command is atomic.    *)
(* A command issued with a cancelled context fails without effect; the     *)
(* commands of AddJob (which checks their errors) may also fail.           *)
(***************************************************************************)
EXTENDS Integers, Sequences, FiniteSets, TLC

(***************************************************************************)
(* Bounds of the model.                                                    *)
(***************************************************************************)
\* AddJob calls (uuids handed out) in the queue specification
MaxJobs == 3

\* the job types AddJob is called with (handlers.go: "random-text",
\* "process-webhook")
JobTypes == {"random-text", "process-webhook"}

\* the types a StartProcessing loop runs for (jobs.Processor.registerJobHandlers)
LoopTypes == {"random-text"}

\* StartProcessing loops per type when the process is run more than once
MaxLoops == 2

\* AddJob calls in the specification with several loops per type
MaxMultiJobs == 2

\* values a JobHandler returns as result, and the texts of the errors it returns
Results == {"r1", "r2"}

ErrorTexts == {"boom"}

\* WebSocket connections in the API specification
MaxClients == 2

\* AddJob calls in the API specification
MaxApiJobs == 1

\* completion events of earlier jobs waiting when the API specification starts
ApiEvents == 1

\* completion events waiting in the subscriber's channel in the hub specification
MaxEvents == 2

\* capacity of a client's send channel (make(chan []byte, 256)), scaled down
SendBufSize == 1

\* WebSocket sessions of the melody server
Sessions == {1, 2}

\* NotifyJobStatus calls
MaxNotify == 2

\* the goroutines that may call NotifyJobStatus at the same time
Notifiers == {1, 2}

\* melody's default Config.MessageBufferSize (melody.New())
MessageBufferSize == 256

\* job ids, statuses and results NotifyJobStatus is called with
WsJobs == {"job1", "job2"}

\* a result encoding/json cannot marshal (a channel, a func)
BadResult == "<chan>"

\* the (status, result) arguments NotifyJobStatus is called with
WsCalls == {<<"running", "<nil>">>, <<"completed", "r1">>, <<"completed", BadResult>>}

\* jobs created from the web clients
MaxWebJobs == 2

\* browsers showing app.vue, each with its own Socket.IO connection
WebClients == {1, 2}

\* the text processRandomTextJob resolves to
WebTexts == {"text"}

\* processRandomTextJob rejected (throw error)
Thrown == "<thrown>"

\* Go's nil interface value / JSON null
Nil == "<nil>"

JobStatusQueued == "queued"

JobStatusProcessing == "processing"

JobStatusCompleted == "completed"

JobStatusFailed == "failed"

\* go-bespin-api, models.JobStatusPending
JobStatusPending == "pending"

\* go-bespin-api, models.JobStatusRetrying
JobStatusRetrying == "retrying"

\* jobs AddJob accepts in the specification of the stored results
MaxResultJobs == 1

\* the values of info.State.String() of an asynq task: the four the switch of
\* AsynqQueue.GetJobResult names and three it does not name
TaskStates == {"pending", "active", "scheduled", "retry", "archived", "completed", "failed"}

\* string(info.Result) of an asynq task
TaskResults == {"", "r1"}

\* info.LastErr of an asynq task
LastErrs == {"", "boom"}

\* the task id GetJobResult is asked about
AsynqTasks == {"t1"}

\* HTTP requests handled in the specification of the handlers
MaxRequests == 2

\* jobs AddJob accepts, of either queue, in the specification of the two queues
MaxFifoJobs == 2

\* AddJob calls of the worker's jobQueue
MaxWorkerJobs == 2

\* the job type of the worker's StartProcessing loop
WorkerTypes == {"random-text"}

\* the URL parameter :source of a webhook request: missing, configured, unknown
Sources == {"", "github", "gitlab"}

\* the event header of a webhook request
EventHeaders == {"", "push"}

\* request bodies: empty, not JSON, a JSON object without and with "event"
Payloads == {"", "junk", "{}", "{\"event\":\"push\"}"}

\* the `length` values of the query string, as sequences of characters
LengthValues ==
  { << >>, <<"0">>, <<"1", "0">>, <<"-", "5">>, <<"+", "7">>, <<"0", "7">>, <<"-">>,
    <<"x">>, <<"1", "x">>, <<"1", ".", "5">>, <<" ", "1">>,
    [i \in 1..20 |-> "9"] }

VARIABLES
  \* ---- Redis (shared store) ----
  jobKeys,      \* key job:<id>        : id -> JSON document of models.Job
  resultKeys,   \* key job:<id>:result : id -> JSON document of models.JobResult
  queue,        \* key queue:<type>    : list of job ids, head = left end
  pubsub,       \* messages of job-completed:* delivered to the subscriber's Go channel
  \* ---- AddJob calls ----
  nextId,       \* next uuid to hand out
  maxId,        \* last uuid of this run
  apc,          \* id -> position of the AddJob call that generated it
  atype,        \* id -> jobType argument of that call
  \* ---- StartProcessing goroutines ----
  cancelled,    \* ctx.Done() is closed
  wpc,          \* loop -> position in the loop / in processJob
  wjob,         \* loop -> jobID local of processJob (0: none)
  wrec,         \* loop -> job local of processJob (the unmarshalled record)
  wout,         \* loop -> (result, err) the handler returned
  \* ---- history ----
  passed,       \* id -> number of calls processJob(ctx, id, handler)
  handled,      \* id -> outcomes the handler returned for the job (a set)
  finished,     \* ids whose processJob call has returned
  events,       \* every message published: <<channel id, payload>>
  pushed,       \* type -> the ids LPUSH appended to queue:<type>, in that order
  popped,       \* type -> the ids BRPOP returned from queue:<type>, in that order
  \* ---- gorilla hub: websocket.Server and its Clients ----
  clients,      \* s.clients: the keys of the map
  cpc,          \* client -> "new" | "serving" | "leaving" | "gone"
  sendq,        \* client -> contents of the buffered channel client.send
  sendClosed,   \* client -> close(client.send) was executed
  recv,         \* client -> messages writePump wrote to the connection
  lpc,          \* listenForJobCompletions: "recv" | "range" | "send" | "drop"
  lmsg,         \* the message being broadcast
  lseen,        \* clients the range loop has produced for this message
  lnew,         \* clients added to the map while this range loop runs
  lcur,         \* the range loop's current client (0: none)
  panicked,     \* the process died of a runtime panic
  \* ---- history ----
  unregistered, \* clients whose unregister run() has processed
  lstale,       \* clients already unregistered when the current broadcast began
  regAt,        \* client -> ids enqueued and not yet finished when it registered
  regCount,     \* client -> number of times run() registered it
  ltwice,       \* clients already registered twice when the current broadcast began
  \* ---- melody server: websocket.Server of go-bespin-api ----
  jobStatuses,  \* s.jobStatuses: job id -> latest JobStatus message
  sessions,     \* melody's hub: the registered sessions
  spc,          \* session -> "new" | "registered" | "connected" | "closed"
  sjob,         \* session -> the job_id value of its request context
  output,       \* session -> messages accepted by session.Write / writeMessage
  hubq,         \* envelopes the hub goroutine has received and not yet delivered
  npc,          \* caller -> position in NotifyJobStatus: "idle" | "broadcast"
  nmsg,         \* caller -> the message local of NotifyJobStatus
  ncalls,       \* NotifyJobStatus calls made so far
  \* ---- history ----
  published,    \* job id -> the messages stored as latest, in the order of the stores
  delivered,    \* <<job id, k>>: the hub has delivered the k-th stored message
  quiet,        \* session -> no NotifyJobStatus call ran while or since it connected
  called,       \* the calls made for an open session's job while it was in melody's hub:
                \* [s, m: the message built, k: its index in published (0: not
                \* marshalled), conn: the session's connect handler had returned]
  seq,          \* <<job id, k>>: no other call for the job was running when the
                \* call that stored the k-th message was made
  callsOf,      \* job id -> the messages of the calls made for it, in the order of
                \* the calls, marshalled or not
  \* ---- web client (app.vue), one component per browser ----
  loading,      \* browser -> loading.value
  resultValue,  \* browser -> result.value
  errorValue,   \* browser -> error.value
  vpc,          \* browser -> position in createJob: "idle", "fetch", "response"
  response,     \* browser -> the jobId of the response to its POST, 0: not ok
  onceListeners,\* browser -> job ids with a socket.once("job-completed:<id>") listener
  \* ---- Bull queue "default" and the JobsGateway ----
  bullNext,     \* the id Queue.add gives the next job
  bullWaiting,  \* the waiting jobs, oldest first
  bullActive,   \* the job the processor is running, 0: none
  bullEvents,   \* 'completed' and 'failed' events not yet handled by the gateway
  packets,      \* browser -> events emitted to its socket and not yet received
  \* ---- asynq (go-bespin-api) ----
  ainfo,        \* task id -> the TaskInfo the inspector has for it, NoTask: none
  aret,         \* what the last AsynqQueue.GetJobResult call returned
  \* ---- HTTP handlers ----
  hn,           \* requests handled so far
  hlast,        \* the last request: handler, inputs, the calls the handler made to
                \* the webhook service and the queue, and the response
  apiReceipts,  \* go-bespin-api: the receipts repo.Create saved
  whReceipts,   \* go-bespin: the receipts repository.Store saved
  enqueued,     \* the jobs of the AddJob calls of the handlers that succeeded
  \* ---- jobQueue of the worker ----
  wkQueue,      \* type -> the Redis list queue:<type>, leftmost element first
  wkNext,       \* the number of the next job id
  wkpc,         \* type -> position of the StartProcessing loop: "loop", "handler",
                \* "stopped"
  wkJob,        \* type -> the job the loop has taken, 0: none
  wkResults,    \* job id -> the document under result:<id>
  wkCancelled,  \* the loop's ctx is done
  wkPushed,     \* history: type -> ids in the order of their successful RPUSH
  wkPopped,     \* history: type -> ids in the order LPOP returned them
  wkHandled     \* history: job id -> the text of the error the handler returned
                \* for it, "" for nil

qvars == <<jobKeys, resultKeys, queue, pubsub, nextId, maxId, apc, atype,
           cancelled, wpc, wjob, wrec, wout, passed, handled, finished, events,
           pushed, popped>>

hvars == <<clients, cpc, sendq, sendClosed, recv, lpc, lmsg, lseen, lnew, lcur,
           panicked, unregistered, lstale, regAt, regCount, ltwice>>

wsvars == <<jobStatuses, sessions, spc, sjob, output, hubq, npc, nmsg, ncalls,
            published, delivered, quiet, called, seq, callsOf>>

webvars == <<loading, resultValue, errorValue, vpc, response, onceListeners,
             bullNext, bullWaiting, bullActive, bullEvents, packets>>

asynqvars == <<ainfo, aret>>

apivars == <<hn, hlast, apiReceipts, whReceipts, enqueued>>

wkvars == <<wkQueue, wkNext, wkpc, wkJob, wkResults, wkCancelled, wkPushed, wkPopped,
           wkHandled>>

svcvars == <<asynqvars, apivars, wkvars>>

vars == <<qvars, hvars, wsvars, webvars, svcvars>>

JobIds == 1..MaxJobs

\* the StartProcessing goroutines: <<job type, instance>>.  One process starts one
\* loop per registered type.
Loops == {<<t, 1>> : t \in LoopTypes}

\* the loops of MaxLoops processes started on the same Redis
MoreLoops == {<<t, i>> : t \in LoopTypes, i \in 1..MaxLoops}

(***************************************************************************)
(* encoding/json of models.Job and models.JobResult                        *)
(***************************************************************************)
\* json.Marshal(job): every field is always written
MarshalJob(job) == [id |-> job.ID, type |-> job.Type, status |-> job.Status]

\* json.Unmarshal into models.Job
UnmarshalJob(doc) == [ID |-> doc.id, Type |-> doc.type, Status |-> doc.status]

\* json.Marshal(jobResult): `error` has omitempty, `result` is written as null for nil
MarshalJobResult(jr) ==
  IF jr.Error = ""
    THEN [jobId |-> jr.JobID, result |-> jr.Result]
    ELSE [jobId |-> jr.JobID, result |-> jr.Result, error |-> jr.Error]

\* json.Unmarshal into models.JobResult: a missing field keeps its zero value
UnmarshalJobResult(doc) ==
  [JobID  |-> doc.jobId,
   Result |-> IF "result" \in DOMAIN doc THEN doc.result ELSE Nil,
   Error  |-> IF "error" \in DOMAIN doc THEN doc.error ELSE ""]

(***************************************************************************)
(* Redis commands                                                          *)
(***************************************************************************)
\* a context whose cancellation the Redis commands do not notice
CtxErrNever == FALSE

\* ctx.Err() != nil: a command issued with the loop's context fails without effect
CtxErr == cancelled

\* a SET that stores nothing
RedisSetNothing(keys, k, v) == keys

\* SET key value
RedisSet(keys, k, v) == [x \in DOMAIN keys \cup {k} |-> IF x = k THEN v ELSE keys[x]]

\* a push to the right end, where BRPOP takes from
LPushRight(q, id) == q \o <<id>>

\* LPUSH queue:<type> id
LPush(q, id) == <<id>> \o q

\* a BRPOP that returns the left end
BRPopValueLeft(q) == q[1]

\* BRPOP queue:<type>: the element returned (the right end)
BRPopValue(q) == q[Len(q)]

\* a BRPOP that returns the right end and leaves it in the list
BRPopRestKeep(q) == q

\* BRPOP queue:<type>: the list left behind
BRPopRest(q) == SubSeq(q, 1, Len(q) - 1)

\* one list for the jobs of every type
QueueKeyShared(jobType) == "random-text"

\* fmt.Sprintf("queue:%s", jobType): the list of the type, the same key in AddJob
\* and in StartProcessing
QueueKey(jobType) == jobType

(***************************************************************************)
(* JobQueue.AddJob                                                         *)
(***************************************************************************)
NewJobRecord(id, t) == [ID |-> id, Type |-> t, Status |-> JobStatusQueued]

\* uuid.New(), build the job, marshal it, SET job:<id>.  ok = FALSE: the SET
\* failed, AddJob returns "", err.
AddJobStore(t, ok) ==
  /\ ~panicked
  /\ UNCHANGED <<hvars, wsvars, webvars, svcvars>>
  /\ UNCHANGED <<pushed, popped>>
  /\ nextId <= maxId
  /\ nextId' = nextId + 1
  /\ atype' = [atype EXCEPT ![nextId] = t]
  /\ IF ok
       THEN /\ jobKeys' = RedisSet(jobKeys, nextId, MarshalJob(NewJobRecord(nextId, t)))
            /\ apc' = [apc EXCEPT ![nextId] = "stored"]
       ELSE /\ apc' = [apc EXCEPT ![nextId] = "error"]
            /\ UNCHANGED jobKeys
  /\ UNCHANGED <<resultKeys, queue, pubsub, maxId, cancelled, wpc, wjob, wrec, wout,
                 passed, handled, finished, events>>

\* an LPUSH that reports success and appends nothing
LPushLost(q, id, ok) == q

\* a failed LPUSH that has appended the id all the same
LPushAnyway(q, id, ok) == LPush(q, id)

\* the list after LPUSH queue:<type> id succeeded (ok) or failed
LPushOutcome(q, id, ok) == IF ok THEN LPush(q, id) ELSE q

\* LPUSH queue:<type> id, then return id, nil.  ok = FALSE: the LPUSH failed,
\* AddJob returns "", err (the record written by SET stays).
AddJobPush(id, ok) ==
  /\ ~panicked
  /\ UNCHANGED <<hvars, wsvars, webvars, svcvars>>
  /\ apc[id] = "stored"
  /\ queue' = [queue EXCEPT ![QueueKey(atype[id])] = LPushOutcome(@, id, ok)]
  /\ pushed' = [pushed EXCEPT ![atype[id]] = IF ok THEN Append(@, id) ELSE @]
  /\ UNCHANGED popped
  /\ apc' = [apc EXCEPT ![id] = IF ok THEN "returned" ELSE "error"]
  /\ UNCHANGED <<jobKeys, resultKeys, pubsub, nextId, maxId, atype, cancelled,
                 wpc, wjob, wrec, wout, passed, handled, finished, events>>

(***************************************************************************)
(* JobQueue.StartProcessing: the goroutine's for/select loop               *)
(***************************************************************************)
Bump(n) == IF n < 2 THEN n + 1 ELSE 2

\* case <-ctx.Done(): return
LoopStop(t) ==
  /\ ~panicked
  /\ UNCHANGED <<hvars, wsvars, webvars, svcvars>>
  /\ UNCHANGED <<pushed, popped>>
  /\ wpc[t] = "loop"
  /\ cancelled
  /\ wpc' = [wpc EXCEPT ![t] = "stopped"]
  /\ UNCHANGED <<jobKeys, resultKeys, queue, pubsub, nextId, maxId, apc, atype,
                 cancelled, wjob, wrec, wout, passed, handled, finished, events>>

\* default: BRPop returns <<key, id>>; jobID := result[1]; processJob(ctx, jobID, handler).
\* With an empty list (redis.Nil after 5 s) or a cancelled ctx (error) the loop
\* continues and nothing changes.
LoopBRPop(t) ==
  /\ ~panicked
  /\ UNCHANGED <<hvars, wsvars, webvars, svcvars>>
  /\ wpc[t] = "loop"
  /\ ~CtxErr
  /\ Len(queue[QueueKey(t[1])]) > 0
  /\ LET id == BRPopValue(queue[QueueKey(t[1])]) IN
       /\ queue' = [queue EXCEPT ![QueueKey(t[1])] = BRPopRest(@)]
       /\ popped' = [popped EXCEPT ![t[1]] = Append(@, id)]
       /\ UNCHANGED pushed
       /\ wjob' = [wjob EXCEPT ![t] = id]
       /\ passed' = [passed EXCEPT ![id] = Bump(@)]
  /\ wpc' = [wpc EXCEPT ![t] = "get"]
  /\ UNCHANGED <<jobKeys, resultKeys, pubsub, nextId, maxId, apc, atype,
                 cancelled, wrec, wout, handled, finished, events>>

(***************************************************************************)
(* JobQueue.processJob                                                     *)
(***************************************************************************)
\* a final status that puts the job back to queued
FinalStatusQueued(out) == JobStatusQueued

\* the job status processJob writes after the handler returned (result, err)
FinalStatus(out) == IF out.err # "" THEN JobStatusFailed ELSE JobStatusCompleted

\* the models.JobResult processJob builds from what the handler returned
BuildJobResult(id, out) ==
  IF out.err # ""
    THEN [JobID |-> id, Result |-> Nil, Error |-> out.err]
    ELSE [JobID |-> id, Result |-> out.result, Error |-> ""]

\* a write of processJob that Redis never applies
CtxSetLost(keys, k, v) == keys

\* a Redis write of processJob: issued with the loop's ctx, its error ignored
CtxSet(keys, k, v) == IF CtxErr THEN keys ELSE RedisSet(keys, k, v)

\* GET job:<id> and unmarshal; on an error (cancelled ctx, missing key) log and return
ProcessGet(t) ==
  /\ ~panicked
  /\ UNCHANGED <<hvars, wsvars, webvars, svcvars>>
  /\ UNCHANGED <<pushed, popped>>
  /\ wpc[t] = "get"
  /\ IF CtxErr \/ wjob[t] \notin DOMAIN jobKeys
       THEN /\ wpc' = [wpc EXCEPT ![t] = "loop"]
            /\ finished' = finished \cup {wjob[t]}
            /\ wjob' = [wjob EXCEPT ![t] = 0]
            /\ UNCHANGED wrec
       ELSE /\ wpc' = [wpc EXCEPT ![t] = "setProcessing"]
            /\ wrec' = [wrec EXCEPT ![t] = UnmarshalJob(jobKeys[wjob[t]])]
            /\ UNCHANGED <<finished, wjob>>
  /\ UNCHANGED <<jobKeys, resultKeys, queue, pubsub, nextId, maxId, apc, atype,
                 cancelled, wout, passed, handled, events>>

\* job.Status = processing; SET job:<id>
ProcessSetProcessing(t) ==
  /\ ~panicked
  /\ UNCHANGED <<hvars, wsvars, webvars, svcvars>>
  /\ UNCHANGED <<pushed, popped>>
  /\ wpc[t] = "setProcessing"
  /\ wrec' = [wrec EXCEPT ![t].Status = JobStatusProcessing]
  /\ jobKeys' = CtxSet(jobKeys, wjob[t], MarshalJob(wrec'[t]))
  /\ wpc' = [wpc EXCEPT ![t] = "handler"]
  /\ UNCHANGED <<resultKeys, queue, pubsub, nextId, maxId, apc, atype,
                 cancelled, wjob, wout, passed, handled, finished, events>>

\* result, err := handler(&job)
ProcessHandler(t, out) ==
  /\ ~panicked
  /\ UNCHANGED <<hvars, wsvars, webvars, svcvars>>
  /\ UNCHANGED <<pushed, popped>>
  /\ wpc[t] = "handler"
  /\ wout' = [wout EXCEPT ![t] = out]
  /\ handled' = [handled EXCEPT ![wjob[t]] = @ \cup {out}]
  /\ wpc' = [wpc EXCEPT ![t] = "setFinal"]
  /\ UNCHANGED <<jobKeys, resultKeys, queue, pubsub, nextId, maxId, apc, atype,
                 cancelled, wjob, wrec, passed, finished, events>>

\* job.Status = failed | completed; SET job:<id>
ProcessSetFinal(t) ==
  /\ ~panicked
  /\ UNCHANGED <<hvars, wsvars, webvars, svcvars>>
  /\ UNCHANGED <<pushed, popped>>
  /\ wpc[t] = "setFinal"
  /\ wrec' = [wrec EXCEPT ![t].Status = FinalStatus(wout[t])]
  /\ jobKeys' = CtxSet(jobKeys, wjob[t], MarshalJob(wrec'[t]))
  /\ wpc' = [wpc EXCEPT ![t] = "setResult"]
  /\ UNCHANGED <<resultKeys, queue, pubsub, nextId, maxId, apc, atype,
                 cancelled, wjob, wout, passed, handled, finished, events>>

\* SET job:<id>:result
ProcessSetResult(t) ==
  /\ ~panicked
  /\ UNCHANGED <<hvars, wsvars, webvars, svcvars>>
  /\ UNCHANGED <<pushed, popped>>
  /\ wpc[t] = "setResult"
  /\ resultKeys' = CtxSet(resultKeys, wjob[t], MarshalJobResult(BuildJobResult(wjob[t], wout[t])))
  /\ wpc' = [wpc EXCEPT ![t] = "publish"]
  /\ UNCHANGED <<jobKeys, queue, pubsub, nextId, maxId, apc, atype,
                 cancelled, wjob, wrec, wout, passed, handled, finished, events>>

\* a loop that ends when the handler returned an error
AfterProcessJobStop(out) == IF out.err # "" THEN "stopped" ELSE "loop"

\* processJob returns nothing: whatever the handler returned, StartProcessing goes
\* on to the next iteration of its for loop
AfterProcessJob(out) == "loop"

\* PUBLISH job-completed:<id> resultJSON, then return to the loop
ProcessPublish(t) ==
  /\ ~panicked
  /\ UNCHANGED <<hvars, wsvars, webvars, svcvars>>
  /\ UNCHANGED <<pushed, popped>>
  /\ wpc[t] = "publish"
  /\ LET ev == <<wjob[t], MarshalJobResult(BuildJobResult(wjob[t], wout[t]))>> IN
       IF CtxErr
         THEN UNCHANGED <<pubsub, events>>
         ELSE /\ pubsub' = Append(pubsub, ev)
              /\ events' = Append(events, ev)
  /\ finished' = finished \cup {wjob[t]}
  /\ wjob' = [wjob EXCEPT ![t] = 0]
  /\ wpc' = [wpc EXCEPT ![t] = AfterProcessJob(wout[t])]
  /\ UNCHANGED <<jobKeys, resultKeys, queue, nextId, maxId, apc, atype,
                 cancelled, wrec, wout, passed, handled>>

\* main: cancel() of the context passed to Processor.Start
Cancel ==
  /\ ~panicked
  /\ UNCHANGED <<hvars, wsvars, webvars, svcvars>>
  /\ UNCHANGED <<pushed, popped>>
  /\ ~cancelled
  /\ cancelled' = TRUE
  /\ UNCHANGED <<jobKeys, resultKeys, queue, pubsub, nextId, maxId, apc, atype,
                 wpc, wjob, wrec, wout, passed, handled, finished, events>>

(***************************************************************************)
(* JobQueue.GetJob, JobQueue.GetJobResult (called with the request's own   *)
(* context)                                                                *)
(***************************************************************************)
\* GetJob: the job, or an error when GET job:<id> fails
GetJob(id) ==
  IF id \in DOMAIN jobKeys
    THEN [err |-> "", job |-> UnmarshalJob(jobKeys[id])]
    ELSE [err |-> "failed to get job", job |-> [ID |-> 0, Type |-> "", Status |-> ""]]

\* GetJobResult: the result, or an error when GET job:<id>:result fails
GetJobResult(id) ==
  IF id \in DOMAIN resultKeys
    THEN [err |-> "", res |-> UnmarshalJobResult(resultKeys[id])]
    ELSE [err |-> "failed to get job result", res |-> [JobID |-> 0, Result |-> Nil, Error |-> ""]]

(***************************************************************************)
(* websocket.Server (gorilla hub): run(), ServeWs, readPump, writePump     *)
(***************************************************************************)
Clients == 1..MaxClients

\* a register that removes a client that is in the map already
RunRegisterToggle(cl, c) == IF c \in cl THEN cl \ {c} ELSE cl \cup {c}

\* case client := <-s.register: s.clients[client] = true
RunRegisterClients(cl, c) == cl \cup {c}

\* a delete that empties the map
RunUnregisterAll(cl, c) == {}

\* an unregister that leaves the map as it is
RunUnregisterKeep(cl, c) == cl

\* case client := <-s.unregister: delete(s.clients, client)
RunUnregisterClients(cl, c) == cl \ {c}

\* run() writes s.clients while listenForJobCompletions is inside its range loop
\* and about to touch the map (next key, or delete): the two goroutines share the
\* map without a lock, and the runtime may detect the overlap and end the process
\* ("fatal error: concurrent map iteration and map write" / "concurrent map writes")
MapRace == lpc \in {"range", "drop"}

\* the process dies of the fatal error, the write not done
MapRaceFatal ==
  /\ MapRace
  /\ panicked' = TRUE
  /\ UNCHANGED <<clients, cpc, sendq, sendClosed, recv, lpc, lmsg, lseen, lnew, lcur,
                 unregistered, lstale, regAt, regCount, ltwice>>

\* jobs enqueued whose processJob has not returned
InProgress == {id \in JobIds : apc[id] = "returned" /\ id \notin finished}

\* ServeWs: client := &Client{send: make(chan []byte, 256)}; s.register <- client,
\* received by run(): s.clients[client] = true.  Connections are numbered in the
\* order in which they are made.
ServeWs(c) ==
  /\ ~panicked
  /\ UNCHANGED <<qvars, wsvars, webvars, svcvars>>
  /\ cpc[c] = "new"
  /\ \A d \in Clients : d < c => cpc[d] # "new"
  /\ \/ /\ clients' = RunRegisterClients(clients, c)
        /\ cpc' = [cpc EXCEPT ![c] = "serving"]
        /\ lnew' = IF lpc = "recv" THEN lnew ELSE lnew \cup {c}
        /\ regAt' = [regAt EXCEPT ![c] = InProgress]
        /\ regCount' = [regCount EXCEPT ![c] = Bump(@)]
        /\ UNCHANGED <<sendq, sendClosed, recv, lpc, lmsg, lseen, lcur, panicked,
                       unregistered, lstale, ltwice>>
     \/ MapRaceFatal

\* run(): case client := <-s.register for a client that is in the map already
RegisterAgain(c) ==
  /\ ~panicked
  /\ UNCHANGED <<qvars, wsvars, webvars, svcvars>>
  /\ cpc[c] = "serving"
  /\ c \in clients
  /\ regCount[c] = 1
  /\ \/ /\ clients' = RunRegisterClients(clients, c)
        /\ regCount' = [regCount EXCEPT ![c] = Bump(@)]
        /\ UNCHANGED <<cpc, sendq, sendClosed, recv, lpc, lmsg, lseen, lnew, lcur,
                       panicked, unregistered, lstale, regAt, ltwice>>
     \/ MapRaceFatal

\* readPump: ReadMessage fails (the peer closed, or the connection errored): break;
\* the deferred function then sends the client on s.unregister
ReadPumpExit(c) ==
  /\ ~panicked
  /\ UNCHANGED <<qvars, wsvars, webvars, svcvars>>
  /\ cpc[c] = "serving"
  /\ cpc' = [cpc EXCEPT ![c] = "leaving"]
  /\ UNCHANGED <<clients, sendq, sendClosed, recv, lpc, lmsg, lseen, lnew, lcur,
                 panicked, unregistered, lstale, regAt, regCount, ltwice>>

\* run(): case client := <-s.unregister: if present, delete it and close(client.send);
\* closing a channel that is already closed panics
RunUnregister(c) ==
  /\ ~panicked
  /\ UNCHANGED <<qvars, wsvars, webvars, svcvars>>
  /\ cpc[c] = "leaving"
  /\ \/ /\ cpc' = [cpc EXCEPT ![c] = "gone"]
        /\ unregistered' = unregistered \cup {c}
        /\ IF c \in clients
             THEN /\ clients' = RunUnregisterClients(clients, c)
                  /\ sendClosed' = [sendClosed EXCEPT ![c] = TRUE]
                  /\ panicked' = sendClosed[c]
             ELSE UNCHANGED <<clients, sendClosed, panicked>>
        /\ UNCHANGED <<sendq, recv, lpc, lmsg, lseen, lnew, lcur, lstale, regAt,
                       regCount, ltwice>>
     \/ (c \in clients /\ MapRaceFatal)

\* writePump: message, ok := <-c.send; write it to the connection
WritePump(c) ==
  /\ ~panicked
  /\ UNCHANGED <<qvars, wsvars, webvars, svcvars>>
  /\ cpc[c] = "serving"
  /\ Len(sendq[c]) > 0
  /\ recv' = [recv EXCEPT ![c] = Append(@, Head(sendq[c]))]
  /\ sendq' = [sendq EXCEPT ![c] = Tail(@)]
  /\ UNCHANGED <<clients, cpc, sendClosed, lpc, lmsg, lseen, lnew, lcur,
                 panicked, unregistered, lstale, regAt, regCount, ltwice>>

(***************************************************************************)
(* websocket.Server.listenForJobCompletions: a goroutine of its own, which *)
(* reads and writes s.clients without synchronising with run()             *)
(***************************************************************************)
\* for msg := range ch
ListenRecv ==
  /\ ~panicked
  /\ lpc = "recv"
  /\ Len(pubsub) > 0
  /\ lmsg' = Head(pubsub)[2]
  /\ pubsub' = Tail(pubsub)
  /\ lpc' = "range"
  /\ lseen' = {}
  /\ lnew' = {}
  /\ lstale' = unregistered
  /\ ltwice' = {c \in Clients : regCount[c] = 2}
  /\ UNCHANGED <<jobKeys, resultKeys, queue, nextId, maxId, apc, atype, cancelled,
                 wpc, wjob, wrec, wout, passed, handled, finished, events,
                 pushed, popped>>
  /\ UNCHANGED <<clients, cpc, sendq, sendClosed, recv, lcur, panicked,
                 unregistered, regAt, regCount>>
  /\ UNCHANGED <<wsvars, webvars, svcvars>>

\* for client := range s.clients: the next key.  A key deleted before it is reached
\* is not produced; a key added during the loop may be produced or skipped.
ListenRange(c) ==
  /\ ~panicked
  /\ UNCHANGED <<qvars, wsvars, webvars, svcvars>>
  /\ lpc = "range"
  /\ c \in clients \ lseen
  /\ lcur' = c
  /\ lseen' = lseen \cup {c}
  /\ lpc' = "send"
  /\ UNCHANGED <<clients, cpc, sendq, sendClosed, recv, lmsg, lnew, panicked,
                 unregistered, lstale, regAt, regCount, ltwice>>

\* the range loop is over
ListenRangeEnd ==
  /\ ~panicked
  /\ UNCHANGED <<qvars, wsvars, webvars, svcvars>>
  /\ lpc = "range"
  /\ (clients \ lseen) \subseteq lnew
  /\ lpc' = "recv"
  /\ UNCHANGED <<clients, cpc, sendq, sendClosed, recv, lmsg, lseen, lnew, lcur,
                 panicked, unregistered, lstale, regAt, regCount, ltwice>>

\* select { case client.send <- payload: ; default: close(client.send) ... }
\* A send on a closed channel panics; with a full buffer the default case runs.
ListenSend ==
  /\ ~panicked
  /\ UNCHANGED <<qvars, wsvars, webvars, svcvars>>
  /\ lpc = "send"
  /\ IF sendClosed[lcur]
       THEN /\ panicked' = TRUE
            /\ UNCHANGED <<sendq, sendClosed, lpc, lcur>>
       ELSE IF Len(sendq[lcur]) < SendBufSize
         THEN /\ sendq' = [sendq EXCEPT ![lcur] = Append(@, lmsg)]
              /\ lpc' = "range"
              /\ lcur' = 0
              /\ UNCHANGED <<sendClosed, panicked>>
         ELSE /\ sendClosed' = [sendClosed EXCEPT ![lcur] = TRUE]
              /\ lpc' = "drop"
              /\ UNCHANGED <<sendq, lcur, panicked>>
  /\ UNCHANGED <<clients, cpc, recv, lmsg, lseen, lnew, unregistered, lstale,
                 regAt, regCount, ltwice>>

\* default: ...; delete(s.clients, client)
ListenDrop ==
  /\ ~panicked
  /\ UNCHANGED <<qvars, wsvars, webvars, svcvars>>
  /\ lpc = "drop"
  /\ clients' = RunUnregisterClients(clients, lcur)
  /\ lpc' = "range"
  /\ lcur' = 0
  /\ UNCHANGED <<cpc, sendq, sendClosed, recv, lmsg, lseen, lnew, panicked,
                 unregistered, lstale, regAt, regCount, ltwice>>

(***************************************************************************)
(* websocket.Server (melody): NotifyJobStatus, HandleConnection,           *)
(* handleConnect, handleDisconnect.  melody registers a session with its   *)
(* hub, then calls the connect handler; BroadcastFilter hands the envelope *)
(* to the hub goroutine, which writes it to every registered session the   *)
(* filter accepts.                                                         *)
(***************************************************************************)
\* message := JobStatus{Type: "job_status", JobID: jobID, Status: status, Result: result}
NewJobStatus(jobID, status, result) ==
  [Type |-> "job_status", JobID |-> jobID, Status |-> status, Result |-> result]

\* json.Marshal(message) fails
MarshalFails(m) == m.Result = BadResult

\* json.Marshal(message): `result` has omitempty and is left out for nil
MarshalJobStatus(m) ==
  IF m.Result = Nil
    THEN [type |-> m.Type, job_id |-> m.JobID, status |-> m.Status]
    ELSE [type |-> m.Type, job_id |-> m.JobID, status |-> m.Status, result |-> m.Result]

\* ReadJSON on the client's side
UnmarshalJobStatus(doc) ==
  [Type |-> doc.type, JobID |-> doc.job_id, Status |-> doc.status,
   Result |-> IF "result" \in DOMAIN doc THEN doc.result ELSE Nil]

\* a store that keeps the first status of a job
StoreFirst(cache, jobID, m) ==
  [x \in DOMAIN cache \cup {jobID} |-> IF x \in DOMAIN cache THEN cache[x] ELSE m]

\* a store that keeps the status of one job only
StoreOnly(cache, jobID, m) == [x \in {jobID} |-> m]

\* s.jobStatuses[jobID] = message
StoreLatest(cache, jobID, m) ==
  [x \in DOMAIN cache \cup {jobID} |-> IF x = jobID THEN m ELSE cache[x]]

\* a filter that accepts no session
SessionFilterNone(sessionJobID, jobID) == FALSE

\* a filter that accepts every session
SessionFilterAll(sessionJobID, jobID) == TRUE

\* the filter NotifyJobStatus passes to BroadcastFilter
SessionFilter(sessionJobID, jobID) == sessionJobID = jobID

\* a connect handler that replays nothing
ReplayNone(cache, jobID) == << >>

\* what handleConnect writes to the session: the latest status of its job, if any
ReplayFor(cache, jobID) ==
  IF jobID \in DOMAIN cache THEN <<MarshalJobStatus(cache[jobID])>> ELSE << >>

\* a write that puts the message in front of those already accepted
SessionWriteFirst(s, q, data) ==
  IF spc[s] = "closed" \/ Len(q) >= MessageBufferSize THEN q ELSE <<data>> \o q

\* session.Write / writeMessage: dropped when the session is closed or its buffer full
SessionWrite(s, q, data) ==
  IF spc[s] = "closed" \/ Len(q) >= MessageBufferSize THEN q ELSE Append(q, data)

\* Job ids are named in the order of their first use by a connection or a stored
\* status: "job2" is not used before "job1".
JobsSeen ==
  {sjob[s] : s \in {x \in Sessions : spc[x] # "new"}} \cup
  {j \in WsJobs : published[j] # << >>}

NextJob(jobID) == jobID \in JobsSeen \/ jobID = "job1" \/ "job1" \in JobsSeen

NoCallRunning == (\A n \in Notifiers : npc[n] = "idle") /\ hubq = << >>

\* NotifyJobStatus up to s.mu.Unlock(): build and marshal the message (return on a
\* marshal error), store it as the latest status of the job
NotifyJobStatusStore(n, jobID, status, result) ==
  /\ UNCHANGED <<qvars, hvars, webvars, svcvars>>
  /\ npc[n] = "idle"
  /\ \A m \in Notifiers : m < n => npc[m] # "idle"
  /\ ncalls < MaxNotify
  /\ NextJob(jobID)
  /\ ncalls' = ncalls + 1
  /\ quiet' = [s \in Sessions |-> quiet[s] /\ spc[s] = "new"]
  /\ LET message == NewJobStatus(jobID, status, result)
         k == IF MarshalFails(message) THEN 0 ELSE Len(published[jobID]) + 1
     IN
       /\ callsOf' = [callsOf EXCEPT ![jobID] = Append(@, message)]
       /\ called' = called \cup
            {[s |-> s, m |-> message, k |-> k, conn |-> spc[s] = "connected"] :
               s \in {x \in sessions : sjob[x] = jobID}}
       /\ seq' = IF k > 0 /\ \A o \in Notifiers : npc[o] = "broadcast" => nmsg[o].jobID # jobID
                   THEN seq \cup {<<jobID, k>>} ELSE seq
       /\ IF MarshalFails(message)
         THEN UNCHANGED <<jobStatuses, npc, nmsg, published>>
         ELSE /\ jobStatuses' = StoreLatest(jobStatuses, jobID, message)
              /\ published' = [published EXCEPT ![jobID] = Append(@, message)]
              /\ nmsg' = [nmsg EXCEPT ![n] =
                            [data |-> MarshalJobStatus(message), jobID |-> jobID,
                             k |-> Len(published[jobID]) + 1]]
              /\ npc' = [npc EXCEPT ![n] = "broadcast"]
  /\ UNCHANGED <<sessions, spc, sjob, output, hubq, delivered>>

\* s.melody.BroadcastFilter(data, filter): the envelope is handed to the hub
NotifyJobStatusBroadcast(n) ==
  /\ UNCHANGED <<qvars, hvars, webvars, svcvars>>
  /\ UNCHANGED callsOf
  /\ npc[n] = "broadcast"
  /\ hubq = << >>
  /\ hubq' = <<nmsg[n]>>
  /\ npc' = [npc EXCEPT ![n] = "idle"]
  /\ UNCHANGED <<jobStatuses, sessions, spc, sjob, output, nmsg, ncalls, published,
                 delivered, quiet, called, seq>>

\* melody's hub: write the envelope to every registered session the filter accepts
HubBroadcast ==
  /\ UNCHANGED <<qvars, hvars, webvars, svcvars>>
  /\ UNCHANGED callsOf
  /\ hubq # << >>
  /\ LET e == Head(hubq) IN
       /\ output' = [s \in Sessions |->
                    IF s \in sessions /\ SessionFilter(sjob[s], e.jobID)
                      THEN SessionWrite(s, output[s], e.data) ELSE output[s]]
       /\ delivered' = delivered \cup {<<e.jobID, e.k>>}
  /\ hubq' = Tail(hubq)
  /\ UNCHANGED <<jobStatuses, sessions, spc, sjob, npc, nmsg, ncalls, published, quiet,
                 called, seq>>

\* HandleConnection: the job id goes into the request context and melody upgrades
\* the request and registers the session with its hub.  Sessions are numbered in
\* the order in which they are made.
HandleConnection(s, jobID) ==
  /\ UNCHANGED <<qvars, hvars, webvars, svcvars>>
  /\ UNCHANGED callsOf
  /\ spc[s] = "new"
  /\ \A d \in Sessions : d < s => spc[d] # "new"
  /\ NextJob(jobID)
  /\ spc' = [spc EXCEPT ![s] = "registered"]
  /\ sjob' = [sjob EXCEPT ![s] = jobID]
  /\ sessions' = sessions \cup {s}
  /\ quiet' = [quiet EXCEPT ![s] = NoCallRunning]
  /\ UNCHANGED <<jobStatuses, output, hubq, npc, nmsg, ncalls, published, delivered,
                 called, seq>>

\* handleConnect: under s.mu.RLock, write the latest status of the job, if any
handleConnect(s) ==
  /\ UNCHANGED <<qvars, hvars, webvars, svcvars>>
  /\ UNCHANGED callsOf
  /\ spc[s] = "registered"
  /\ spc' = [spc EXCEPT ![s] = "connected"]
  /\ LET replay == ReplayFor(jobStatuses, sjob[s]) IN
       output' = [output EXCEPT ![s] = IF replay = << >> THEN @ ELSE SessionWrite(s, @, replay[1])]
  /\ UNCHANGED <<jobStatuses, sessions, sjob, hubq, npc, nmsg, ncalls, published,
                 delivered, quiet, called, seq>>

\* the connection closes: melody unregisters the session, closes it and calls
\* handleDisconnect, which only logs
handleDisconnect(s) ==
  /\ UNCHANGED <<qvars, hvars, webvars, svcvars>>
  /\ UNCHANGED callsOf
  /\ spc[s] = "connected"
  /\ spc' = [spc EXCEPT ![s] = "closed"]
  /\ sessions' = sessions \ {s}
  /\ called' = {c \in called : c.s # s}
  /\ UNCHANGED <<jobStatuses, sjob, output, hubq, npc, nmsg, ncalls, published,
                 delivered, quiet, seq>>

(***************************************************************************)
(* The NestJS API (JobsController, JobsService, JobsProcessor, JobsGateway) *)
(* and the web client (app.vue)                                            *)
(***************************************************************************)
WebJobIds == 1..MaxWebJobs

WebOutcomes == WebTexts \cup {Thrown}

\* the Bull event a finished job raises on the queue: 'completed' with the value
\* the processor resolved to, 'failed' with the error it rejected with
BullEvent(id, out) ==
  [name |-> IF out = Thrown THEN "failed" ELSE "completed", id |-> id, value |-> out]

\* this.server.emit(`job-completed:${job.id}`, result): the packet is appended to
\* what is on its way to a connected socket
ServerEmit(q, ev) == Append(q, <<ev.id, ev.value>>)

\* createJob up to the fetch: the button is disabled while loading
createJob(c) ==
  /\ ~loading[c]
  /\ vpc[c] = "idle"
  /\ bullNext <= MaxWebJobs
  /\ loading' = [loading EXCEPT ![c] = TRUE]
  /\ errorValue' = [errorValue EXCEPT ![c] = ""]
  /\ resultValue' = [resultValue EXCEPT ![c] = ""]
  /\ vpc' = [vpc EXCEPT ![c] = "fetch"]
  /\ UNCHANGED <<response, onceListeners, bullNext, bullWaiting, bullActive,
                 bullEvents, packets>>
  /\ UNCHANGED <<qvars, hvars, wsvars, svcvars>>

\* POST /api/jobs/random-text: JobsController.createRandomTextJob calls
\* JobsService.createRandomTextJob, which adds the job to the queue; ok = FALSE
\* is a request that failed (Queue.add rejected, response not ok)
PostRandomText(c, ok) ==
  /\ vpc[c] = "fetch"
  /\ IF ok
       THEN /\ bullNext <= MaxWebJobs
            /\ bullWaiting' = Append(bullWaiting, bullNext)
            /\ response' = [response EXCEPT ![c] = bullNext]
            /\ bullNext' = bullNext + 1
       ELSE /\ response' = [response EXCEPT ![c] = 0]
            /\ UNCHANGED <<bullWaiting, bullNext>>
  /\ vpc' = [vpc EXCEPT ![c] = "response"]
  /\ UNCHANGED <<loading, resultValue, errorValue, onceListeners, bullActive,
                 bullEvents, packets>>
  /\ UNCHANGED <<qvars, hvars, wsvars, svcvars>>

\* createJob after the fetch: a response that is not ok throws and the catch
\* block ends the waiting; otherwise socket.once("job-completed:<jobId>") is set
createJobResponse(c) ==
  /\ vpc[c] = "response"
  /\ IF response[c] = 0
       THEN /\ errorValue' = [errorValue EXCEPT ![c] = "Failed to create job"]
            /\ loading' = [loading EXCEPT ![c] = FALSE]
            /\ UNCHANGED onceListeners
       ELSE /\ onceListeners' = [onceListeners EXCEPT ![c] = @ \cup {response[c]}]
            /\ UNCHANGED <<errorValue, loading>>
  /\ vpc' = [vpc EXCEPT ![c] = "idle"]
  /\ UNCHANGED <<resultValue, response, bullNext, bullWaiting, bullActive,
                 bullEvents, packets>>
  /\ UNCHANGED <<qvars, hvars, wsvars, svcvars>>

\* Bull hands the oldest waiting job to the processor (concurrency 1)
BullTake ==
  /\ bullActive = 0
  /\ bullWaiting # << >>
  /\ bullActive' = Head(bullWaiting)
  /\ bullWaiting' = Tail(bullWaiting)
  /\ UNCHANGED <<loading, resultValue, errorValue, vpc, response, onceListeners,
                 bullNext, bullEvents, packets>>
  /\ UNCHANGED <<qvars, hvars, wsvars, svcvars>>

\* JobsProcessor.processRandomTextJob returns the text or rethrows the error; Bull
\* raises 'completed' or 'failed' on the queue (jobs are added without attempts,
\* a failed job is not retried)
processRandomTextJob(out) ==
  /\ bullActive # 0
  /\ bullEvents' = Append(bullEvents, BullEvent(bullActive, out))
  /\ bullActive' = 0
  /\ UNCHANGED <<loading, resultValue, errorValue, vpc, response, onceListeners,
                 bullNext, bullWaiting, packets>>
  /\ UNCHANGED <<qvars, hvars, wsvars, svcvars>>

\* JobsGateway: this.jobQueue.on('completed', ...) emits job-completed:<id> with
\* the result to every connected socket
GatewayOnCompleted ==
  /\ bullEvents # << >>
  /\ Head(bullEvents).name = "completed"
  /\ packets' = [c \in WebClients |-> ServerEmit(packets[c], Head(bullEvents))]
  /\ bullEvents' = Tail(bullEvents)
  /\ UNCHANGED <<loading, resultValue, errorValue, vpc, response, onceListeners,
                 bullNext, bullWaiting, bullActive>>
  /\ UNCHANGED <<qvars, hvars, wsvars, svcvars>>

\* JobsGateway: this.jobQueue.on('failed', ...) logs the error and emits nothing
GatewayOnFailed ==
  /\ bullEvents # << >>
  /\ Head(bullEvents).name = "failed"
  /\ bullEvents' = Tail(bullEvents)
  /\ UNCHANGED <<loading, resultValue, errorValue, vpc, response, onceListeners,
                 bullNext, bullWaiting, bullActive, packets>>
  /\ UNCHANGED <<qvars, hvars, wsvars, svcvars>>

\* the browser's socket receives the next packet: the once-listener of that job,
\* when it is set, stores the result, ends the waiting and is removed; a packet
\* with no listener is dropped
SocketReceive(c) ==
  /\ packets[c] # << >>
  /\ packets' = [packets EXCEPT ![c] = Tail(@)]
  /\ LET p == Head(packets[c])
     IN IF p[1] \in onceListeners[c]
          THEN /\ resultValue' = [resultValue EXCEPT ![c] = p[2]]
               /\ loading' = [loading EXCEPT ![c] = FALSE]
               /\ onceListeners' = [onceListeners EXCEPT ![c] = @ \ {p[1]}]
          ELSE UNCHANGED <<resultValue, loading, onceListeners>>
  /\ UNCHANGED <<errorValue, vpc, response, bullNext, bullWaiting, bullActive,
                 bullEvents>>
  /\ UNCHANGED <<qvars, hvars, wsvars, svcvars>>

\* the page is mounted, the socket is connected, no job was created
InitWeb ==
  /\ loading = [c \in WebClients |-> FALSE]
  /\ resultValue = [c \in WebClients |-> ""]
  /\ errorValue = [c \in WebClients |-> ""]
  /\ vpc = [c \in WebClients |-> "idle"]
  /\ response = [c \in WebClients |-> 0]
  /\ onceListeners = [c \in WebClients |-> {}]
  /\ bullNext = 1
  /\ bullWaiting = << >>
  /\ bullActive = 0
  /\ bullEvents = << >>
  /\ packets = [c \in WebClients |-> << >>]

(***************************************************************************)
(* AsynqQueue (go-bespin-api): GetJobResult reads the TaskInfo that asynq  *)
(* keeps for the task in the queue "default".  The asynq server of the     *)
(* worker moves the task from state to state; what it does is not in the   *)
(* repository and is left open here.                                       *)
(***************************************************************************)
NoTask == [State |-> "<none>", Result |-> "", LastErr |-> ""]

TaskInfos == [State : TaskStates, Result : TaskResults, LastErr : LastErrs]

\* the *models.JobResult a call returns when it returns nil
NilResult == [ID |-> "", Status |-> "", Result |-> "", Error |-> ""]

NoReturn == [jobID |-> "", res |-> NilResult, err |-> ""]

\* a result that reports every task as failed and copies both its result and its
\* last error
StatusOfTaskFailed(jobID, info) ==
  [ID |-> jobID, Status |-> JobStatusFailed, Result |-> info.Result, Error |-> info.LastErr]

\* the switch on info.State.String(), applied to the result with Status pending
StatusOfTask(jobID, info) ==
  LET result == [ID |-> jobID, Status |-> JobStatusPending, Result |-> "", Error |-> ""]
  IN CASE info.State = "active" -> [result EXCEPT !.Status = JobStatusProcessing]
       [] info.State = "completed" ->
            [result EXCEPT !.Status = JobStatusCompleted, !.Result = info.Result]
       [] info.State = "failed" ->
            [result EXCEPT !.Status = JobStatusFailed, !.Error = info.LastErr]
       [] info.State = "retry" ->
            [result EXCEPT !.Status = JobStatusRetrying, !.Error = info.LastErr]
       [] OTHER -> result

\* the asynq server: the task is enqueued, picked up, retried, archived, completed
AsynqTaskChanges(id, info) ==
  /\ UNCHANGED <<qvars, hvars, wsvars, webvars, apivars, wkvars>>
  /\ ainfo[id] # info
  /\ ainfo' = [ainfo EXCEPT ![id] = info]
  /\ UNCHANGED aret

\* AsynqQueue.GetJobResult(ctx, jobID): (nil, nil) for asynq.ErrTaskNotFound,
\* (nil, err) for another error of GetTaskInfo, else the result of the switch
AsynqGetJobResult(jobID, inspectorErr) ==
  /\ UNCHANGED <<qvars, hvars, wsvars, webvars, apivars, wkvars>>
  /\ aret' =
       IF inspectorErr
         THEN [jobID |-> jobID, res |-> NilResult, err |-> "failed to get task info"]
       ELSE IF ainfo[jobID] = NoTask THEN [jobID |-> jobID, res |-> NilResult, err |-> ""]
       ELSE [jobID |-> jobID, res |-> StatusOfTask(jobID, ainfo[jobID]), err |-> ""]
  /\ aret' # aret
  /\ UNCHANGED ainfo

InitAsynq ==
  /\ ainfo = [id \in AsynqTasks |-> NoTask]
  /\ aret = NoReturn

(***************************************************************************)
(* HTTP handlers: HandleRandomText and HandleWebhook of go-bespin-api with *)
(* webhook.Service.CreateReceipt, ReceiveWebhook and CreateRandomTextJob   *)
(* of go-bespin.  A handler runs from the request to the response in one   *)
(* step; the body read, the repository and the queue may fail.             *)
(***************************************************************************)
JobTypeRandomText == "random_text"

JobTypeProcessWebhook == "process_webhook"

\* secrets of NewService: GITHUB_WEBHOOK_SECRET is set, no other
Secrets == [src \in {"github"} |-> "k1"]

\* hex.EncodeToString of the HMAC-SHA256 of payload under secret
Hmac(secret, payload) ==
  CASE secret = "k1" /\ payload = "" -> "mac10"
    [] secret = "k1" /\ payload = "junk" -> "mac11"
    [] secret = "k1" /\ payload = "{}" -> "mac12"
    [] secret = "k1" /\ payload = "{\"event\":\"push\"}" -> "mac13"
    [] OTHER -> "mac00"

\* the signature header, split at "=": an empty header, a text that is no
\* digest, the digest of a body, the digest behind an algorithm prefix
SigHeaders ==
  {<<"">>, <<"bad">>, <<Hmac("k1", "{}")>>, <<Hmac("k1", "{\"event\":\"push\"}")>>,
   <<"sha256", Hmac("k1", "{}")>>}

\* what fails while a request is handled: nothing, the read of the body, the
\* repository, the queue.  A handler returns at the first failure, so one
\* failure per request covers every combination.
Faults == {"none", "read", "repo", "queue"}

\* an error value: its text is format with arg in the place of %s
Err(format, arg) == [format |-> format, arg |-> arg]

NoErr == Err("", "")

\* c.JSON(code, ...): the fields of any of the bodies the handlers write
Response(code, fields) ==
  [f \in {"code", "error", "job_id", "jobId", "receipt_id", "status", "id", "warning"} |->
     IF f = "code" THEN code
     ELSE IF f \in DOMAIN fields THEN fields[f]
     ELSE IF f \in {"job_id", "jobId", "receipt_id", "id"} THEN 0 ELSE ""]

NoRequest == [handler |-> "", req |-> [none |-> TRUE], calls |-> << >>,
              resp |-> Response(0, [status |-> ""])]

\* c.DefaultQuery(key, defaultValue)
DefaultQuery(q, defaultValue) == IF q.present THEN q.value ELSE defaultValue

DigitValue ==
  [c \in {"0", "1", "2", "3", "4", "5", "6", "7", "8", "9"} |->
     CASE c = "0" -> 0 [] c = "1" -> 1 [] c = "2" -> 2 [] c = "3" -> 3 [] c = "4" -> 4
       [] c = "5" -> 5 [] c = "6" -> 6 [] c = "7" -> 7 [] c = "8" -> 8 [] c = "9" -> 9]

\* the characters after an optional sign
Unsigned(str) == IF str # << >> /\ str[1] \in {"+", "-"} THEN Tail(str) ELSE str

RECURSIVE StripZeros(_)
StripZeros(ds) == IF Len(ds) > 1 /\ ds[1] = "0" THEN StripZeros(Tail(ds)) ELSE ds

\* the largest int, 1<<63 - 1, in digits
MaxInt64 ==
  <<"9", "2", "2", "3", "3", "7", "2", "0", "3", "6", "8", "5", "4", "7", "7", "5", "8", "0", "7">>

\* digit sequences of one length, compared as numbers
RECURSIVE GreaterDigits(_, _)
GreaterDigits(a, b) ==
  IF a = << >> THEN FALSE
  ELSE IF a[1] # b[1] THEN DigitValue[a[1]] > DigitValue[b[1]]
  ELSE GreaterDigits(Tail(a), Tail(b))

\* the magnitude does not fit an int (the one value -1<<63 apart)
OutOfRange(ds) ==
  LET n == StripZeros(ds)
  IN Len(n) > Len(MaxInt64) \/ (Len(n) = Len(MaxInt64) /\ GreaterDigits(n, MaxInt64))

RECURSIVE DigitsValue(_)
DigitsValue(ds) ==
  IF ds = << >> THEN 0 ELSE DigitsValue(SubSeq(ds, 1, Len(ds) - 1)) * 10 + DigitValue[ds[Len(ds)]]

\* a parse that accepts every text as 0
AtoiZero(str) == [value |-> 0, err |-> ""]

\* strconv.Atoi: an optional sign and at least one decimal digit; a syntax error
\* for anything else, a range error for a value that does not fit an int
Atoi(str) ==
  LET ds == Unsigned(str) IN
    IF ds = << >> \/ \E i \in DOMAIN ds : ds[i] \notin DOMAIN DigitValue
      THEN [value |-> 0, err |-> "invalid syntax"]
    ELSE IF OutOfRange(ds)
      THEN [value |-> 0, err |-> "value out of range"]
    ELSE [value |-> IF str[1] = "-" THEN 0 - DigitsValue(ds) ELSE DigitsValue(ds),
          err |-> ""]

\* the record of a request: handler, inputs, the calls made, the response
Handled(handler, req, calls, resp) ==
  [handler |-> handler, req |-> req, calls |-> calls, resp |-> resp]

\* h.jobQueue.AddJob: the call a handler makes and its outcome
AddJobCall(job, ok) == [op |-> "AddJob", arg |-> job, ok |-> ok]

\* the jobs the queue holds after the calls of a handler
AfterCalls(q, calls) ==
  LET added == SelectSeq(calls, LAMBDA c : c.op = "AddJob" /\ c.ok)
  IN q \o [i \in DOMAIN added |-> added[i].arg]

\* HandleRandomText: 400 when length does not parse, else one AddJob call with a
\* random_text job; 500 when the call fails, else 202 with the job id
HandleRandomText(q, addJobOk) ==
  /\ UNCHANGED <<qvars, hvars, wsvars, webvars, asynqvars, wkvars>>
  /\ hn < MaxRequests
  /\ hn' = hn + 1
  /\ LET lengthStr == DefaultQuery(q, <<"1", "0", "0">>)
         r == Atoi(lengthStr)
         job == [Type |-> JobTypeRandomText, Data |-> [Length |-> r.value]]
         calls == IF r.err # "" THEN << >> ELSE <<AddJobCall(job, addJobOk)>>
         resp == IF r.err # ""
                   THEN Response(400, [error |-> "invalid length parameter"])
                 ELSE IF ~addJobOk
                   THEN Response(500, [error |-> "failed to add job to queue"])
                 ELSE Response(202, [job_id |-> Len(enqueued) + 1, status |-> "queued"])
     IN /\ hlast' = Handled("HandleRandomText", [length |-> q], calls, resp)
        /\ enqueued' = AfterCalls(enqueued, calls)
  /\ UNCHANGED <<apiReceipts, whReceipts>>

\* the JSON value of "length" in a request body: a number or a string
JsonNumber(n) == [kind |-> "number", value |-> n]

JsonString(n) == [kind |-> "string", value |-> n]

\* the bodies of POST /api/jobs/random-text: a text that is not JSON (syntax
\* FALSE), or an object with or without the field "length"
RandomTextBodies ==
  {[syntax |-> FALSE, fields |-> << >>]} \cup
  {[syntax |-> TRUE, fields |-> f] :
     f \in {<< >>} \cup {[length |-> v] : v \in {JsonNumber(0), JsonNumber(0 - 5),
                                                 JsonNumber(1), JsonNumber(7),
                                                 JsonString(7)}}}

\* c.ShouldBindJSON(&request) for models.RandomTextJobRequest{Length int
\* `json:"length" binding:"min=1"`}: decode the body into the request, whose
\* Length keeps its value when the field is absent, then validate min=1
ShouldBindJSON(body, request) ==
  IF ~body.syntax
    THEN [err |-> "invalid character", request |-> request]
  ELSE IF "length" \in DOMAIN body.fields /\ body.fields.length.kind # "number"
    THEN [err |-> "cannot unmarshal string into Go struct field", request |-> request]
  ELSE LET bound == IF "length" \in DOMAIN body.fields
                      THEN [Length |-> body.fields.length.value] ELSE request
       IN [err |-> IF bound.Length < 1 THEN "failed on the 'min' tag" ELSE "",
           request |-> bound]

\* go-bespin, Handlers.CreateRandomTextJob: the request starts with Length 100;
\* 400 when the body does not bind or Length is below 1; else one AddJob call with
\* a random-text job; 500 when the call fails, else 200 with the job id
CreateRandomTextJob(body, addJobOk) ==
  /\ UNCHANGED <<qvars, hvars, wsvars, webvars, asynqvars, wkvars>>
  /\ hn < MaxRequests
  /\ hn' = hn + 1
  /\ LET b == ShouldBindJSON(body, [Length |-> 100])
         rejected == b.err # "" \/ b.request.Length < 1
         job == [Type |-> "random-text", Data |-> b.request]
         calls == IF rejected THEN << >> ELSE <<AddJobCall(job, addJobOk)>>
         resp == IF b.err # ""
                   THEN Response(400, [error |-> b.err])
                 ELSE IF b.request.Length < 1
                   THEN Response(400, [error |-> "Length must be at least 1"])
                 ELSE IF ~addJobOk
                   THEN Response(500, [error |-> "Failed to create job"])
                 ELSE Response(200, [jobId |-> Len(enqueued) + 1])
     IN /\ hlast' = Handled("CreateRandomTextJob", [body |-> body], calls, resp)
        /\ enqueued' = AfterCalls(enqueued, calls)
  /\ UNCHANGED <<apiReceipts, whReceipts>>

\* go-bespin-api, Service.IsValidSource
IsValidSource(source) == source \in DOMAIN Secrets

\* go-bespin-api, Service.VerifySignature: the header is the digest itself
VerifySignature(source, payload, signature) ==
  /\ source \in DOMAIN Secrets
  /\ Len(signature) = 1
  /\ signature[1] = Hmac(Secrets[source], payload)

\* models.NewWebhookReceipt with the id the repository has not seen
NewWebhookReceipt(id, source, event, payload, signature) ==
  [ID |-> id, Source |-> source, Event |-> event, Payload |-> payload,
   Signature |-> signature, Status |-> "pending"]

\* a CreateReceipt that saves the receipt without verifying the signature
CreateReceiptUnverified(source, event, payload, signature, saveOk) ==
  [receipt |-> NewWebhookReceipt(Len(apiReceipts) + 1, source, event, payload, signature),
   err |-> NoErr, saved |-> TRUE]

\* Service.CreateReceipt: the receipt and a nil error, or the first error of the
\* checks and of repo.Create; saved tells whether repo.Create stored the receipt
CreateReceipt(source, event, payload, signature, saveOk) ==
  LET receipt == NewWebhookReceipt(Len(apiReceipts) + 1, source, event, payload, signature)
      failed(e) == [receipt |-> receipt, err |-> e, saved |-> FALSE]
  IN IF ~IsValidSource(source) THEN failed(Err("invalid source: %s", source))
     ELSE IF event = "" THEN failed(Err("event is required", ""))
     ELSE IF payload = "" THEN failed(Err("payload is required", ""))
     ELSE IF signature = <<"">> THEN failed(Err("signature is required", ""))
     ELSE IF ~VerifySignature(source, payload, signature)
       THEN failed(Err("invalid signature", ""))
     ELSE IF ~saveOk THEN failed(Err("failed to save receipt: %w", "repo"))
     ELSE [receipt |-> receipt, err |-> NoErr, saved |-> TRUE]

\* HandleWebhook: 404 without a source, 400 without the event or the signature
\* header, 500 when the body cannot be read; the error of CreateReceipt is
\* answered with 404 for an invalid source and with 400 otherwise; then one
\* AddJob call with a process_webhook job for the receipt, 500 or 202
HandleWebhook(source, event, signature, payload, fault) ==
  /\ UNCHANGED <<qvars, hvars, wsvars, webvars, asynqvars, wkvars>>
  /\ hn < MaxRequests
  /\ hn' = hn + 1
  /\ LET readOk == fault # "read"
         saveOk == fault # "repo"
         addJobOk == fault # "queue"
         req == [source |-> source, event |-> event, signature |-> signature,
                 payload |-> payload, readOk |-> readOk]
         early == IF source = "" THEN Response(404, [error |-> "source is required"])
                  ELSE IF event = ""
                    THEN Response(400, [error |-> "X-Event-Type header is required"])
                  ELSE IF signature = <<"">>
                    THEN Response(400, [error |-> "X-Signature header is required"])
                  ELSE IF ~readOk
                    THEN Response(500, [error |-> "failed to read request body"])
                  ELSE Response(0, [status |-> ""])
         cr == CreateReceipt(source, event, payload, signature, saveOk)
         job == [Type |-> JobTypeProcessWebhook, Data |-> [ReceiptID |-> cr.receipt.ID]]
     IN IF early.code # 0
          THEN /\ hlast' = Handled("HandleWebhook", req, << >>, early)
               /\ UNCHANGED <<apiReceipts, enqueued>>
        ELSE IF cr.err # NoErr
          THEN /\ hlast' = Handled("HandleWebhook", req,
                              <<[op |-> "CreateReceipt", arg |-> cr.err, ok |-> FALSE]>>,
                              Response(IF cr.err = Err("invalid source: %s", source)
                                         THEN 404 ELSE 400,
                                       [error |-> cr.err.format]))
               /\ UNCHANGED <<apiReceipts, enqueued>>
        ELSE LET calls == <<[op |-> "CreateReceipt", arg |-> cr.receipt, ok |-> TRUE],
                            AddJobCall(job, addJobOk)>>
             IN /\ hlast' = Handled("HandleWebhook", req, calls,
                               IF addJobOk
                                 THEN Response(202, [job_id |-> Len(enqueued) + 1,
                                                     receipt_id |-> cr.receipt.ID,
                                                     status |-> "queued"])
                                 ELSE Response(500, [error |-> "failed to add job to queue"]))
                /\ apiReceipts' = IF cr.saved THEN Append(apiReceipts, cr.receipt)
                                              ELSE apiReceipts
                /\ enqueued' = AfterCalls(enqueued, calls)
  /\ UNCHANGED whReceipts

\* go-bespin, Service.VerifySignature: a header with exactly one "=" is compared
\* from behind the "="
VerifySignaturePrefixed(source, payload, signature) ==
  /\ source \in DOMAIN Secrets
  /\ Secrets[source] # ""
  /\ \/ Len(signature) = 1 /\ signature[1] = Hmac(Secrets[source], payload)
     \/ Len(signature) = 2 /\ signature[2] = Hmac(Secrets[source], payload)

\* c.ShouldBindJSON(&payload) succeeds
ValidJSON(payload) == payload \in {"{}", "{\"event\":\"push\"}"}

\* payload["event"] when it is a string, else ""
PayloadEvent(payload) == IF payload = "{\"event\":\"push\"}" THEN "push" ELSE ""

\* the event of the receipt: from the payload, else the header, else "unknown"
EventOf(payload, header) ==
  IF PayloadEvent(payload) # "" THEN PayloadEvent(payload)
  ELSE IF header # "" THEN header ELSE "unknown"

\* an answer to a failed AddJob that fails the request
AddJobFailedError(receipt) == Response(500, [error |-> "Failed to queue job"])

\* the answer of ReceiveWebhook when AddJob failed: 200, the receipt, a warning
AddJobFailedResponse(receipt) ==
  Response(200, [id |-> receipt.ID,
                 warning |-> "Webhook received but processing job could not be queued"])

\* ReceiveWebhook: 400 without a source, without the signature header, for an
\* unknown source and for a body that is not JSON, 500 when the body cannot be
\* read, 401 for a wrong signature, 500 when the receipt cannot be stored; then
\* one AddJob call, answered with 200 whether it fails or not
ReceiveWebhook(source, signature, payload, header, fault) ==
  /\ UNCHANGED <<qvars, hvars, wsvars, webvars, asynqvars, wkvars>>
  /\ hn < MaxRequests
  /\ hn' = hn + 1
  /\ LET readOk == fault # "read"
         storeOk == fault # "repo"
         addJobOk == fault # "queue"
         req == [source |-> source, event |-> header, signature |-> signature,
                 payload |-> payload, readOk |-> readOk]
         early == IF source = "" THEN Response(400, [error |-> "Source is required"])
                  ELSE IF signature = <<"">>
                    THEN Response(400, [error |-> "Signature header is required"])
                  ELSE IF ~IsValidSource(source)
                    THEN Response(400, [error |-> "Unknown webhook source"])
                  ELSE IF ~readOk
                    THEN Response(500, [error |-> "Failed to read request body"])
                  ELSE IF ~ValidJSON(payload)
                    THEN Response(400, [error |-> "Invalid JSON payload"])
                  ELSE IF ~VerifySignaturePrefixed(source, payload, signature)
                    THEN Response(401, [error |-> "Invalid signature"])
                  ELSE Response(0, [status |-> ""])
         event == EventOf(payload, header)
         receipt == NewWebhookReceipt(Len(whReceipts) + 1, source, event, payload, signature)
         store == [op |-> "Store", arg |-> receipt, ok |-> storeOk]
         job == [Type |-> "process-webhook",
                 Data |-> [WebhookID |-> receipt.ID, Source |-> source, Event |-> event]]
     IN IF early.code # 0
          THEN /\ hlast' = Handled("ReceiveWebhook", req, << >>, early)
               /\ UNCHANGED <<whReceipts, enqueued>>
        ELSE IF ~storeOk
          THEN /\ hlast' = Handled("ReceiveWebhook", req, <<store>>,
                              Response(500, [error |-> "Failed to store webhook"]))
               /\ UNCHANGED <<whReceipts, enqueued>>
        ELSE LET calls == <<store, AddJobCall(job, addJobOk)>>
             IN /\ hlast' = Handled("ReceiveWebhook", req, calls,
                               IF addJobOk
                                 THEN Response(200, [id |-> receipt.ID,
                                                     job_id |-> Len(enqueued) + 1])
                                 ELSE AddJobFailedResponse(receipt))
                /\ whReceipts' = Append(whReceipts, receipt)
                /\ enqueued' = AfterCalls(enqueued, calls)
  /\ UNCHANGED apiReceipts

\* no request was handled, nothing is stored
InitHandlers ==
  /\ hn = 0
  /\ hlast = NoRequest
  /\ apiReceipts = << >>
  /\ whReceipts = << >>
  /\ enqueued = << >>

(***************************************************************************)
(* jobQueue of the worker: AddJob, GetJob, StartProcessing, GetJobResult   *)
(***************************************************************************)
WorkerJobIds == 1..MaxWorkerJobs

\* RPUSH queue:<type> job
RPush(q, id) == Append(q, id)

\* AddJob: a job with a new id is appended to queue:<type>, or RPUSH fails and
\* nothing is appended
WorkerAddJob(t, ok) ==
  /\ UNCHANGED <<qvars, hvars, wsvars, webvars, asynqvars, apivars>>
  /\ wkNext <= MaxWorkerJobs
  /\ wkNext' = wkNext + 1
  /\ IF ok
       THEN /\ wkQueue' = [wkQueue EXCEPT ![t] = RPush(@, wkNext)]
            /\ wkPushed' = [wkPushed EXCEPT ![t] = Append(@, wkNext)]
       ELSE UNCHANGED <<wkQueue, wkPushed>>
  /\ UNCHANGED <<wkpc, wkJob, wkResults, wkCancelled, wkPopped, wkHandled>>

\* StartProcessing, case <-ctx.Done(): return ctx.Err()
WorkerStop(t) ==
  /\ UNCHANGED <<qvars, hvars, wsvars, webvars, asynqvars, apivars>>
  /\ wkpc[t] = "loop"
  /\ wkCancelled
  /\ wkpc' = [wkpc EXCEPT ![t] = "stopped"]
  /\ UNCHANGED <<wkQueue, wkNext, wkJob, wkResults, wkCancelled, wkPushed, wkPopped,
                 wkHandled>>

\* StartProcessing, default: GetJob takes the leftmost job with LPOP; an error of
\* LPOP (the ctx is done, Redis fails) ends the loop; with an empty list the loop
\* sleeps and tries again
WorkerGetJob(t, ok) ==
  /\ UNCHANGED <<qvars, hvars, wsvars, webvars, asynqvars, apivars>>
  /\ wkpc[t] = "loop"
  /\ IF wkCancelled \/ ~ok
       THEN /\ wkpc' = [wkpc EXCEPT ![t] = "stopped"]
            /\ UNCHANGED <<wkQueue, wkJob, wkPopped>>
       ELSE /\ wkQueue[t] # << >>
            /\ wkJob' = [wkJob EXCEPT ![t] = Head(wkQueue[t])]
            /\ wkQueue' = [wkQueue EXCEPT ![t] = Tail(@)]
            /\ wkPopped' = [wkPopped EXCEPT ![t] = Append(@, Head(wkQueue[t]))]
            /\ wkpc' = [wkpc EXCEPT ![t] = "handler"]
  /\ UNCHANGED <<wkNext, wkResults, wkCancelled, wkPushed, wkHandled>>

\* the values a queue.JobHandler of the worker returns: nil or an error
HandlerErrs == {""} \cup ErrorTexts

\* json.Marshal of the error value held by JobResult.Data: null for nil; an error
\* made by errors.New or fmt.Errorf has no exported field and is written as {}
MarshalErrorValue(e) == IF e = "" THEN Nil ELSE "{}"

\* jobResult := &models.JobResult{JobID: jobID, Data: result, Error: ""}
WorkerJobResult(jobID, result) == [JobID |-> jobID, Data |-> result, Error |-> ""]

\* json.Marshal(jobResult)
MarshalWorkerResult(jr) ==
  [job_id |-> jr.JobID, data |-> MarshalErrorValue(jr.Data), error |-> jr.Error]

\* json.Unmarshal into models.JobResult
UnmarshalWorkerResult(doc) == [JobID |-> doc.job_id, Data |-> doc.data, Error |-> doc.error]

\* result := handler(ctx, jobID, data): the value the handler returns, an error or
\* nil, becomes the Data of the JobResult, whose Error is ""; the JobResult is
\* stored under result:<id>; an error of SET ends the loop
WorkerStoreResult(t, result, ok) ==
  /\ UNCHANGED <<qvars, hvars, wsvars, webvars, asynqvars, apivars>>
  /\ wkpc[t] = "handler"
  /\ wkHandled' = [wkHandled EXCEPT ![wkJob[t]] = result]
  /\ IF wkCancelled \/ ~ok
       THEN /\ wkpc' = [wkpc EXCEPT ![t] = "stopped"]
            /\ UNCHANGED wkResults
       ELSE /\ wkResults' = [x \in DOMAIN wkResults \cup {wkJob[t]} |->
                               IF x = wkJob[t]
                                 THEN MarshalWorkerResult(WorkerJobResult(wkJob[t], result))
                                 ELSE wkResults[x]]
            /\ wkpc' = [wkpc EXCEPT ![t] = "loop"]
  /\ wkJob' = [wkJob EXCEPT ![t] = 0]
  /\ UNCHANGED <<wkQueue, wkNext, wkCancelled, wkPushed, wkPopped>>

\* jobQueue.GetJobResult: nil, nil when result:<id> is missing; an error with the
\* text of result.Error when that is not empty; else result.Data
WorkerGetJobResult(jobID) ==
  IF jobID \notin DOMAIN wkResults
    THEN [data |-> Nil, err |-> ""]
    ELSE LET result == UnmarshalWorkerResult(wkResults[jobID]) IN
           IF result.Error # ""
             THEN [data |-> Nil, err |-> result.Error]
             ELSE [data |-> result.Data, err |-> ""]

\* the ctx passed to StartProcessing is cancelled
WorkerCancel ==
  /\ UNCHANGED <<qvars, hvars, wsvars, webvars, asynqvars, apivars>>
  /\ ~wkCancelled
  /\ wkCancelled' = TRUE
  /\ UNCHANGED <<wkQueue, wkNext, wkpc, wkJob, wkResults, wkPushed, wkPopped, wkHandled>>

\* the queue is empty and one StartProcessing loop runs for each type
InitWorker ==
  /\ wkQueue = [t \in WorkerTypes |-> << >>]
  /\ wkNext = 1
  /\ wkpc = [t \in WorkerTypes |-> "loop"]
  /\ wkJob = [t \in WorkerTypes |-> 0]
  /\ wkResults = << >>
  /\ wkCancelled = FALSE
  /\ wkPushed = [t \in WorkerTypes |-> << >>]
  /\ wkPopped = [t \in WorkerTypes |-> << >>]
  /\ wkHandled = [id \in WorkerJobIds |-> ""]

NextWorker ==
  \/ \E t \in WorkerTypes, ok \in BOOLEAN : WorkerAddJob(t, ok)
  \/ \E t \in WorkerTypes : WorkerStop(t)
  \/ \E t \in WorkerTypes, ok \in BOOLEAN : WorkerGetJob(t, ok)
  \/ \E t \in WorkerTypes, r \in HandlerErrs, ok \in BOOLEAN : WorkerStoreResult(t, r, ok)
  \/ WorkerCancel

InitSvc == InitAsynq /\ InitHandlers /\ InitWorker

(***************************************************************************)
(* Specification of the queue                                              *)
(***************************************************************************)
Outcomes ==
  [result : Results, err : {""}] \cup [result : {Nil}, err : ErrorTexts]
    \cup [result : {"r1"}, err : ErrorTexts]

NoOutcome == [result |-> Nil, err |-> ""]

NoEnvelope == [data |-> [type |-> "", job_id |-> "", status |-> ""], jobID |-> "", k |-> 0]

NoMessage == [jobId |-> 0, result |-> Nil]

NoJob == [ID |-> 0, Type |-> "", Status |-> ""]

InitQueue(n, L) ==
  /\ jobKeys = << >>
  /\ resultKeys = << >>
  /\ queue = [t \in JobTypes |-> << >>]
  /\ pubsub = << >>
  /\ nextId = 1
  /\ maxId = n
  /\ apc = [id \in JobIds |-> "none"]
  /\ atype = [id \in JobIds |-> "random-text"]
  /\ cancelled = FALSE
  /\ wpc = [t \in L |-> "loop"]
  /\ wjob = [t \in L |-> 0]
  /\ wrec = [t \in L |-> NoJob]
  /\ wout = [t \in L |-> NoOutcome]
  /\ passed = [id \in JobIds |-> 0]
  /\ handled = [id \in JobIds |-> {}]
  /\ finished = {}
  /\ events = << >>
  /\ pushed = [t \in JobTypes |-> << >>]
  /\ popped = [t \in JobTypes |-> << >>]

InitHub ==
  /\ clients = {}
  /\ cpc = [c \in Clients |-> "new"]
  /\ sendq = [c \in Clients |-> << >>]
  /\ sendClosed = [c \in Clients |-> FALSE]
  /\ recv = [c \in Clients |-> << >>]
  /\ lpc = "recv"
  /\ lmsg = NoMessage
  /\ lseen = {}
  /\ lnew = {}
  /\ lcur = 0
  /\ panicked = FALSE
  /\ unregistered = {}
  /\ lstale = {}
  /\ regAt = [c \in Clients |-> {}]
  /\ regCount = [c \in Clients |-> 0]
  /\ ltwice = {}

InitWs ==
  /\ jobStatuses = << >>
  /\ sessions = {}
  /\ spc = [s \in Sessions |-> "new"]
  /\ sjob = [s \in Sessions |-> ""]
  /\ output = [s \in Sessions |-> << >>]
  /\ hubq = << >>
  /\ npc = [n \in Notifiers |-> "idle"]
  /\ nmsg = [n \in Notifiers |-> NoEnvelope]
  /\ ncalls = 0
  /\ published = [j \in WsJobs |-> << >>]
  /\ delivered = {}
  /\ quiet = [s \in Sessions |-> TRUE]
  /\ called = {}
  /\ seq = {}
  /\ callsOf = [j \in WsJobs |-> << >>]

Init == InitQueue(MaxJobs, Loops) /\ InitHub /\ InitWs /\ InitWeb /\ InitSvc

NextQueue ==
  \/ \E t \in JobTypes, ok \in BOOLEAN : AddJobStore(t, ok)
  \/ \E id \in JobIds, ok \in BOOLEAN : AddJobPush(id, ok)
  \/ \E t \in Loops : LoopStop(t)
  \/ \E t \in Loops : LoopBRPop(t)
  \/ \E t \in Loops : ProcessGet(t)
  \/ \E t \in Loops : ProcessSetProcessing(t)
  \/ \E t \in Loops, out \in Outcomes : ProcessHandler(t, out)
  \/ \E t \in Loops : ProcessSetFinal(t)
  \/ \E t \in Loops : ProcessSetResult(t)
  \/ \E t \in Loops : ProcessPublish(t)
  \/ Cancel

Next == NextQueue

Spec == Init /\ [][Next]_vars

\* Each StartProcessing loop is a goroutine of its own that the scheduler keeps
\* running, Redis answers every command, and the handler returns.
LoopFairness(t) ==
  /\ WF_vars(LoopStop(t))
  /\ WF_vars(LoopBRPop(t))
  /\ WF_vars(ProcessGet(t))
  /\ WF_vars(ProcessSetProcessing(t))
  /\ WF_vars(\E out \in Outcomes : ProcessHandler(t, out))
  /\ WF_vars(ProcessSetFinal(t))
  /\ WF_vars(ProcessSetResult(t))
  /\ WF_vars(ProcessPublish(t))

SpecFair == Init /\ [][Next]_vars /\ \A t \in Loops : LoopFairness(t)

(***************************************************************************)
(* Specification of the queue with MaxLoops loops per type                 *)
(***************************************************************************)
InitMulti == InitQueue(MaxMultiJobs, MoreLoops) /\ InitHub /\ InitWs /\ InitWeb /\ InitSvc

NextMulti ==
  \/ \E t \in JobTypes, ok \in BOOLEAN : AddJobStore(t, ok)
  \/ \E id \in JobIds, ok \in BOOLEAN : AddJobPush(id, ok)
  \/ \E t \in MoreLoops : LoopStop(t)
  \/ \E t \in MoreLoops : LoopBRPop(t)
  \/ \E t \in MoreLoops : ProcessGet(t)
  \/ \E t \in MoreLoops : ProcessSetProcessing(t)
  \/ \E t \in MoreLoops, out \in Outcomes : ProcessHandler(t, out)
  \/ \E t \in MoreLoops : ProcessSetFinal(t)
  \/ \E t \in MoreLoops : ProcessSetResult(t)
  \/ \E t \in MoreLoops : ProcessPublish(t)
  \/ Cancel

SpecMulti == InitMulti /\ [][NextMulti]_vars

(***************************************************************************)
(* Properties of the queue                                                 *)
(***************************************************************************)
\* occurrences of id in the list q
CountIn(q, id) == Cardinality({i \in DOMAIN q : q[i] = id})

SuccessOf(r) == [result |-> r, err |-> ""]

FailureOf(e) == [result |-> Nil, err |-> e]

\* C1: with producers calling AddJob concurrently and one processing loop for the
\* type, a job whose AddJob call returned an id is either still in the list exactly
\* once and not yet passed to processJob, or out of the list and passed to
\* processJob exactly once: none is lost, none is processed twice.
C1_ExactlyOnce ==
  \A id \in JobIds :
    /\ passed[id] <= 1
    /\ (apc[id] = "returned" /\ atype[id] \in LoopTypes) =>
          CountIn(queue[atype[id]], id) + passed[id] = 1

\* two producers overlap (the later AddJob call has pushed, the earlier one has
\* not yet) and the later job has been processed once
C1_Witness ==
  \E id, id2 \in JobIds :
    /\ id < id2
    /\ apc[id] = "stored"
    /\ apc[id2] = "returned"
    /\ passed[id2] = 1
    /\ id2 \in finished

\* C2: when the handler returned (r, nil) for an enqueued job and processJob has
\* returned, GetJob reports status completed and GetJobResult returns a JobResult
\* whose Result is r and whose Error is empty.
C2_RoundTrip ==
  \A id \in JobIds, r \in Results :
    (apc[id] = "returned" /\ id \in finished /\ SuccessOf(r) \in handled[id]) =>
       /\ GetJob(id).err = ""
       /\ GetJob(id).job.Status = JobStatusCompleted
       /\ GetJobResult(id).err = ""
       /\ GetJobResult(id).res.Result = r
       /\ GetJobResult(id).res.Error = ""

\* C3: when the handler returned an error e and processJob has returned, the
\* job's status is failed, the stored JobResult has Error = e and no Result, and
\* the completion event published for the job reports the failure without a result.
C3_HandlerError ==
  \A id \in JobIds, e \in ErrorTexts :
    (apc[id] = "returned" /\ id \in finished /\ FailureOf(e) \in handled[id]) =>
       /\ GetJob(id).err = ""
       /\ GetJob(id).job.Status = JobStatusFailed
       /\ GetJobResult(id).err = ""
       /\ GetJobResult(id).res.Error = e
       /\ GetJobResult(id).res.Result = Nil
       /\ \E i \in DOMAIN events :
            /\ events[i][1] = id
            /\ UnmarshalJobResult(events[i][2]).Error = e
            /\ UnmarshalJobResult(events[i][2]).Result = Nil

\* C8: GetJobResult tells an id that was never enqueued (not found) from a job
\* that was enqueued and has not finished (a pending or processing status): the
\* two answers differ.
C8_UnknownVersusUnfinished ==
  \A id, unknown \in JobIds :
    (apc[id] = "returned" /\ id \notin finished /\ apc[unknown] = "none") =>
       GetJobResult(id) # GetJobResult(unknown)

\* the status stored under job:<id>, "none" when the key is absent
StatusOf(keys, id) == IF id \in DOMAIN keys THEN UnmarshalJob(keys[id]).Status ELSE "none"

\* C13: when the SET or the LPUSH of AddJob failed, AddJob returned an error and
\* no id, the id is in no list, and it is never passed to processJob nor handled.
C13_FailedAddJobNeverProcessed ==
  \A id \in JobIds :
    apc[id] = "error" =>
       /\ \A t \in JobTypes : CountIn(queue[t], id) = 0
       /\ passed[id] = 0
       /\ handled[id] = {}
       /\ \A t \in DOMAIN wjob : wjob[t] # id

\* an AddJob call whose LPUSH failed after its SET succeeded, while the loop has
\* processed a later job
C13_Witness ==
  \E id, id2 \in JobIds :
    /\ id < id2
    /\ apc[id] = "error"
    /\ id \in DOMAIN jobKeys
    /\ id2 \in finished
    /\ wpc[<<"random-text", 1>>] = "loop"
    /\ queue["random-text"] = << >>

StatusSteps ==
  {<<"none", JobStatusQueued>>, <<JobStatusQueued, JobStatusProcessing>>,
   <<JobStatusProcessing, JobStatusCompleted>>, <<JobStatusProcessing, JobStatusFailed>>}

SomeHandlerError == \E id \in JobIds, e \in ErrorTexts : FailureOf(e) \in handled[id]

\* C15: a loop stops only when the context is cancelled, and once a handler has
\* returned an error every enqueued job of a type with a loop is still passed to
\* processJob and handled, unless the context is cancelled.
C15_LoopSurvivesHandlerError ==
  /\ [](\A t \in DOMAIN wpc : wpc[t] = "stopped" => cancelled)
  /\ \A id \in JobIds :
       (SomeHandlerError /\ apc[id] = "returned" /\ atype[id] \in LoopTypes)
          ~> ((handled[id] # {} /\ id \in finished) \/ cancelled)

\* the event of a job whose handler failed is followed by the event of another job
C15_Witness ==
  \E i, k \in DOMAIN events :
    /\ i < k
    /\ UnmarshalJobResult(events[i][2]).Error # ""
    /\ events[k][1] # events[i][1]
    /\ wpc[<<"random-text", 1>>] = "loop"

C17_NoJobAbandoned ==
  \A t \in DOMAIN wpc :
    wpc[t] = "stopped" =>
       \A id \in JobIds :
         (passed[id] >= 1 /\ atype[id] = t[1]) =>
            \/ /\ StatusOf(jobKeys, id) \in {JobStatusCompleted, JobStatusFailed}
               /\ id \in DOMAIN resultKeys
            \/ CountIn(queue[atype[id]], id) > 0

C19_OneLoopPerJob ==
  /\ \A id \in JobIds :
       /\ passed[id] <= 1
       /\ (apc[id] = "returned" /\ atype[id] \in LoopTypes) =>
             CountIn(queue[atype[id]], id) + passed[id] = 1
  /\ \A t, u \in DOMAIN wjob : (t # u /\ wjob[t] # 0) => wjob[t] # wjob[u]

\* two loops of the same type are inside processJob at once, each with its own job
C19_Witness ==
  \E t, u \in DOMAIN wjob :
    /\ t # u
    /\ t[1] = u[1]
    /\ wjob[t] # 0
    /\ wjob[u] # 0
    /\ wpc[t] = "handler"
    /\ wpc[u] = "handler"

\* the published events of job id
EventsOf(id) == Cardinality({i \in DOMAIN events : events[i][1] = id})

\* the status transitions stored for job id: to processing, then to completed or
\* failed
Committed(id) ==
  CASE StatusOf(jobKeys, id) = JobStatusProcessing -> 1
    [] StatusOf(jobKeys, id) \in {JobStatusCompleted, JobStatusFailed} -> 2
    [] OTHER -> 0

\* C25: once processJob has returned for a job, the job has one published event
\* for each status transition stored for it (processing, completed or failed).
C25_OneEventPerTransition ==
  \A id \in JobIds : id \in finished => EventsOf(id) = Committed(id)

\* C27: with one loop per type, the ids BRPOP has returned from queue:<type> of
\* JobQueue are, in order, the first ids that AddJob appended to it with LPUSH,
\* and the ids LPOP has returned from queue:<type> of the worker's jobQueue are,
\* in order, the first ids that AddJob appended to it with RPUSH.
C27_FirstInFirstOut ==
  /\ \A t \in JobTypes :
       /\ Len(popped[t]) <= Len(pushed[t])
       /\ \A i \in DOMAIN popped[t] : popped[t][i] = pushed[t][i]
  /\ \A t \in WorkerTypes :
       /\ Len(wkPopped[t]) <= Len(wkPushed[t])
       /\ \A i \in DOMAIN wkPopped[t] : wkPopped[t][i] = wkPushed[t][i]

\* two jobs of JobQueue whose LPUSH came in the reverse order of their ids were
\* both queued at once and have been dequeued, the one appended first before the
\* other; two jobs of the worker's jobQueue were both queued at once and have
\* been dequeued in the order of their RPUSH
C27_Witness ==
  /\ \E t \in JobTypes :
       /\ Len(popped[t]) >= 2
       /\ popped[t][1] > popped[t][2]
       /\ passed[popped[t][1]] = 1
       /\ passed[popped[t][2]] = 1
       /\ popped[t][1] \in finished
  /\ \E t \in WorkerTypes :
       /\ wkPopped[t] = <<1, 2>>
       /\ wkPushed[t] = <<1, 2>>
       /\ 1 \in DOMAIN wkResults
       /\ 2 \in DOMAIN wkResults

\* C30: a loop started for type T only ever holds, and its handler is only ever
\* given, a job that AddJob was called with type T for.
C30_OwnTypeOnly ==
  /\ \A t \in DOMAIN wjob : wjob[t] # 0 => atype[wjob[t]] = t[1]
  /\ \A t \in JobTypes : \A i \in DOMAIN popped[t] : atype[popped[t][i]] = t
  /\ \A id \in JobIds : handled[id] # {} => atype[id] \in LoopTypes

\* a process-webhook job is queued while the handler of the random-text loop has
\* been given a random-text job enqueued after it
C30_Witness ==
  \E id, id2 \in JobIds :
    /\ id < id2
    /\ atype[id] = "process-webhook"
    /\ apc[id] = "returned"
    /\ CountIn(queue["process-webhook"], id) = 1
    /\ atype[id2] = "random-text"
    /\ handled[id2] # {}
    /\ handled[id] = {}

C36_QueuedIdHasRecord ==
  /\ \A t \in JobTypes : \A i \in DOMAIN queue[t] : queue[t][i] \in DOMAIN jobKeys
  /\ \A l \in Loops : wpc[l] = "get" => wjob[l] \in DOMAIN jobKeys

\* an id waits in a list while processJob has found the record of another
C36_Witness ==
  /\ \E t \in JobTypes : queue[t] # << >>
  /\ \E l \in Loops : wpc[l] = "setProcessing" /\ wrec[l].ID = wjob[l]

\* C39: after an AddJob call that returned an error, no record job:<id> of the
\* id the call had made is in the store and the id is in no list.
C39_FailedAddJobLeavesNothing ==
  \A id \in JobIds :
    apc[id] = "error" =>
      /\ id \notin DOMAIN jobKeys
      /\ \A t \in JobTypes : CountIn(queue[t], id) = 0

(***************************************************************************)
(* The state after k jobs of type random-text have been enqueued and        *)
(* processed with success, their completion events waiting in the channel  *)
(* of listenForJobCompletions; n more AddJob calls are to come.            *)
(***************************************************************************)
FeedOutcome == [result |-> "r1", err |-> ""]

FeedEvent(id) == <<id, MarshalJobResult(BuildJobResult(id, FeedOutcome))>>

InitFeed(k, n) ==
  /\ jobKeys = [id \in 1..k |->
                  MarshalJob([ID |-> id, Type |-> "random-text", Status |-> JobStatusCompleted])]
  /\ resultKeys = [id \in 1..k |-> FeedEvent(id)[2]]
  /\ queue = [t \in JobTypes |-> << >>]
  /\ pubsub = [id \in 1..k |-> FeedEvent(id)]
  /\ nextId = k + 1
  /\ maxId = k + n
  /\ apc = [id \in JobIds |-> IF id <= k THEN "returned" ELSE "none"]
  /\ atype = [id \in JobIds |-> "random-text"]
  /\ cancelled = FALSE
  /\ wpc = [t \in Loops |-> "loop"]
  /\ wjob = [t \in Loops |-> 0]
  /\ wrec = [t \in Loops |-> NoJob]
  /\ wout = [t \in Loops |-> NoOutcome]
  /\ passed = [id \in JobIds |-> IF id <= k THEN 1 ELSE 0]
  /\ handled = [id \in JobIds |-> IF id <= k THEN {FeedOutcome} ELSE {}]
  /\ finished = 1..k
  /\ events = [id \in 1..k |-> FeedEvent(id)]
  /\ pushed = [t \in JobTypes |-> IF t = "random-text" THEN [id \in 1..k |-> id] ELSE << >>]
  /\ popped = pushed

(***************************************************************************)
(* Specification of the API process: the queue, its processor and the hub  *)
(***************************************************************************)
InitApi == InitFeed(ApiEvents, MaxApiJobs) /\ InitHub /\ InitWs /\ InitWeb /\ InitSvc

NextHub ==
  \/ \E c \in Clients : ServeWs(c)
  \/ \E c \in Clients : ReadPumpExit(c)
  \/ \E c \in Clients : RunUnregister(c)
  \/ \E c \in Clients : WritePump(c)
  \/ ListenRecv
  \/ \E c \in Clients : ListenRange(c)
  \/ ListenRangeEnd
  \/ ListenSend
  \/ ListenDrop

NextApi == NextQueue \/ NextHub

SpecApi == InitApi /\ [][NextApi]_vars

(***************************************************************************)
(* Properties of the API process                                           *)
(***************************************************************************)
\* what a client has been sent: written to its connection or waiting in client.send
Inbox(c) == recv[c] \o sendq[c]

\* the messages for job id among q
CountMsgs(q, id) == Cardinality({i \in DOMAIN q : q[i].jobId = id})

\* no completion event of job id is waiting or being broadcast
BroadcastOver(id) ==
  /\ \A i \in DOMAIN pubsub : pubsub[i][1] # id
  /\ lpc = "recv" \/ lmsg.jobId # id

StaysConnected(c) == cpc[c] = "serving" /\ c \in clients /\ ~sendClosed[c] /\ ~panicked

\* C6: a connection that registered after job id was enqueued and before its
\* processing completed, and stays connected, has received exactly one completion
\* event for id, carrying the handler's result, once the handler has returned
\* with success, processJob has returned and the broadcast is over.
C6_OneCompletedEvent ==
  \A c \in Clients, id \in JobIds, r \in Results :
    (/\ id \in regAt[c]
     /\ StaysConnected(c)
     /\ SuccessOf(r) \in handled[id]
     /\ id \in finished
     /\ BroadcastOver(id)) =>
       /\ CountMsgs(Inbox(c), id) = 1
       /\ \A i \in DOMAIN Inbox(c) :
            Inbox(c)[i].jobId = id =>
               /\ UnmarshalJobResult(Inbox(c)[i]).Result = r
               /\ UnmarshalJobResult(Inbox(c)[i]).Error = ""

\* the select of the broadcast finds the client's buffer full
SendBufferFull == lpc = "send" /\ ~sendClosed[lcur] /\ Len(sendq[lcur]) >= SendBufSize

\* a step of the default branch of the broadcast: close(client.send), or
\* delete(s.clients, client)
DropStep == (SendBufferFull /\ lpc' = "drop") \/ (lpc = "drop" /\ lpc' = "range")

\* C26: the steps that drop a client whose buffer is full leave every other
\* client's membership of s.clients, its send channel and what it was sent as
\* they were, and change no key job:<id> or job:<id>:result.
C26_DropLeavesOthers ==
  [][DropStep =>
       /\ \A c \in Clients \ {lcur} :
            /\ (c \in clients') = (c \in clients)
            /\ sendq'[c] = sendq[c]
            /\ sendClosed'[c] = sendClosed[c]
            /\ recv'[c] = recv[c]
       /\ jobKeys' = jobKeys
       /\ resultKeys' = resultKeys]_vars

\* a client was dropped by a broadcast while another client, with an event waiting
\* in its send channel, is still registered and jobs are stored
C26_Witness ==
  \E c, d \in Clients :
    /\ c # d
    /\ sendClosed[d] /\ d \notin clients /\ d \notin unregistered
    /\ c \in clients /\ ~sendClosed[c] /\ Len(sendq[c]) > 0
    /\ DOMAIN resultKeys # {}
    /\ ~panicked

(***************************************************************************)
(* Specification of the hub alone                                          *)
(***************************************************************************)
InitHubFeed == InitHub /\ InitWs /\ InitWeb /\ InitSvc /\ \E k \in 0..MaxEvents : InitFeed(k, 0)

SpecHub == InitHubFeed /\ [][NextHub]_vars

(***************************************************************************)
(* Properties of the hub                                                   *)
(***************************************************************************)
\* C9: a client whose unregister run() has processed is not in s.clients, and a
\* broadcast that began after that never has it as the target of a send or of
\* the default branch.
C9_NoSendAfterUnregister ==
  /\ \A c \in unregistered : c \notin clients
  /\ ~(lpc \in {"send", "drop"} /\ lcur \in lstale)

\* a broadcast that began after some client was unregistered is sending to
\* another client
C9_Witness ==
  /\ lstale # {}
  /\ lpc = "send"
  /\ lcur \notin lstale

\* listenForJobCompletions is a goroutine of its own that the scheduler keeps
\* running as long as the process lives
HubFairness ==
  /\ WF_vars(ListenRecv)
  /\ WF_vars(\E c \in Clients : ListenRange(c))
  /\ WF_vars(ListenRangeEnd)
  /\ WF_vars(ListenSend)
  /\ WF_vars(ListenDrop)

SpecHubFair == InitHubFeed /\ [][NextHub]_vars /\ HubFairness

\* C21: the broadcast is never blocked at a client whose buffer is full; the
\* send is skipped and the channel closed, then the client is removed from
\* s.clients; and every other client that was in s.clients when the broadcast
\* began and stays in it is sent the event.
C21_FullBufferNeverBlocks ==
  /\ [](SendBufferFull /\ ~panicked => ENABLED ListenSend)
  /\ [][(SendBufferFull /\ ~panicked /\ lpc' # "send") =>
           /\ sendq'[lcur] = sendq[lcur]
           /\ sendClosed'[lcur]
           /\ lpc' = "drop"]_vars
  /\ [][(lpc = "drop" /\ lpc' # "drop") => lcur \notin clients']_vars
  /\ \A c, d \in Clients, id \in JobIds :
       (lpc = "drop" /\ lcur = d /\ lmsg.jobId = id /\ c # d
          /\ c \in clients /\ c \notin lnew)
         ~> (CountMsgs(Inbox(c), id) >= 1 \/ c \notin clients)

\* C31: the select of the broadcast (case client.send <- payload) never runs
\* on a client whose send channel is closed, however the client's unregister
\* interleaves with the range loop.
C31_NoSendOnClosedChannel == [][ListenSend => ~sendClosed[lcur]]_vars

\* a step of run() that writes s.clients: a register or an unregister that
\* finds the client
RunWritesClients ==
  /\ \E c \in Clients : ServeWs(c) \/ RunUnregister(c)
  /\ clients' # clients

\* listenForJobCompletions is inside its loop `for client := range s.clients`
Iterating == lpc \in {"range", "send", "drop"}

\* C32: run() never adds a client to s.clients or removes one from it while
\* listenForJobCompletions is iterating over s.clients for a broadcast.
C32_RegistryMutuallyExclusive == [][RunWritesClients => ~Iterating]_vars

\* C37: every client in s.clients has an open send channel, and run() never
\* executes close(client.send) on a channel that is closed already.
C37_ClosedAtMostOnce ==
  /\ [](\A c \in clients : ~sendClosed[c])
  /\ [][\A c \in Clients :
          (RunUnregister(c) /\ c \in clients /\ cpc'[c] = "gone") => ~sendClosed[c]]_vars

(***************************************************************************)
(* Specification of the hub with a client sent on s.register a second time *)
(***************************************************************************)
NextReg == NextHub \/ \E c \in Clients : RegisterAgain(c)

SpecReg == InitHubFeed /\ [][NextReg]_vars

\* the clients the map holds when every client is registered once: those whose
\* registration run() has processed, whose unregister it has not, and which no
\* broadcast has dropped
RegisteredOnce ==
  {c \in Clients :
     /\ regCount[c] >= 1
     /\ c \notin unregistered
     /\ sendClosed[c] => (lpc = "drop" /\ lcur = c)}

\* C10: with a client registered a second time s.clients is what it is with every
\* client registered once, no client is ever sent two copies of an event, and a
\* broadcast begun after the second registration has sent the client one copy
\* when the range loop has passed it.
C10_RegisterTwiceIsOnce ==
  /\ clients = RegisteredOnce
  /\ \A c \in Clients, id \in JobIds : CountMsgs(Inbox(c), id) <= 1
  /\ \A c \in ltwice :
       (lpc = "range" /\ c \in lseen /\ c \in clients) =>
          CountMsgs(Inbox(c), lmsg.jobId) = 1

\* a broadcast begun after a client's second registration has sent it the event
C10_Witness ==
  \E c \in ltwice :
    /\ lpc = "range"
    /\ c \in lseen
    /\ c \in clients
    /\ CountMsgs(Inbox(c), lmsg.jobId) = 1

(***************************************************************************)
(* Specification of the melody server                                      *)
(***************************************************************************)
NextWs ==
  \/ \E n \in Notifiers, j \in WsJobs, a \in WsCalls :
        NotifyJobStatusStore(n, j, a[1], a[2])
  \/ \E n \in Notifiers : NotifyJobStatusBroadcast(n)
  \/ HubBroadcast
  \/ \E s \in Sessions, j \in WsJobs : HandleConnection(s, j)
  \/ \E s \in Sessions : handleConnect(s)
  \/ \E s \in Sessions : handleDisconnect(s)

SpecWs == Init /\ [][NextWs]_vars

(***************************************************************************)
(* Properties of the melody server                                         *)
(***************************************************************************)
Terminal == {JobStatusCompleted, JobStatusFailed}

LastPublished(j) == published[j][Len(published[j])]

\* C4: every message written to a session is a message of the job the session
\* subscribed to.
C4_OnlyOwnJob ==
  \A s \in Sessions : \A i \in DOMAIN output[s] :
    UnmarshalJobStatus(output[s][i]).JobID = sjob[s]

\* two sessions subscribed to different jobs have each been written a message
C4_Witness ==
  \E s, t \in Sessions :
    /\ sjob[s] # sjob[t]
    /\ output[s] # << >>
    /\ output[t] # << >>

C7_TerminalAtLeastOnce ==
  \A s \in Sessions :
    (/\ spc[s] = "connected"
     /\ published[sjob[s]] # << >>
     /\ LastPublished(sjob[s]).Status \in Terminal
     /\ <<sjob[s], Len(published[sjob[s]])>> \in delivered) =>
       \E i \in DOMAIN output[s] :
         output[s][i] = MarshalJobStatus(LastPublished(sjob[s]))

\* the connect overlapped the publish: the session was written the terminal
\* message by the broadcast and by the replay
C7_Witness ==
  \E s \in Sessions :
    /\ spc[s] = "connected"
    /\ Len(published[sjob[s]]) = 1
    /\ LastPublished(sjob[s]).Status \in Terminal
    /\ Len(output[s]) = 2
    /\ output[s][1] = output[s][2]

\* the stored messages of its job whose calls were made while session s was
\* connected
HeardKs(s) == {c.k : c \in {x \in called : x.s = s /\ x.k > 0 /\ x.conn}}

HeardDelivered(s) == {k \in HeardKs(s) : <<sjob[s], k>> \in delivered}

FirstHeard(s) == CHOOSE k \in HeardKs(s) : \A x \in HeardKs(s) : k <= x

\* C11: for a session that was connected when the calls were made and stays
\* connected, when each NotifyJobStatus call for its job was made with no other
\* call for that job running, the messages written to the session last are the
\* delivered ones among them, in the order of the calls.
C11_InCallOrder ==
  \A s \in Sessions :
    (/\ spc[s] = "connected"
     /\ HeardKs(s) # {}
     /\ \A k \in HeardKs(s) : <<sjob[s], k>> \in seq) =>
       LET n == Cardinality(HeardDelivered(s)) IN
         /\ n <= Len(output[s])
         /\ \A i \in 1..n :
              output[s][Len(output[s]) - n + i] =
                 MarshalJobStatus(published[sjob[s]][FirstHeard(s) + i - 1])

\* a connected session has been written two different statuses of two calls made
\* one after the other
C11_Witness ==
  \E s \in Sessions :
    /\ spc[s] = "connected"
    /\ Cardinality(HeardKs(s)) = 2
    /\ \A k \in HeardKs(s) : <<sjob[s], k>> \in seq
    /\ Cardinality(HeardDelivered(s)) = 2
    /\ published[sjob[s]][FirstHeard(s)] # published[sjob[s]][FirstHeard(s) + 1]

LastCall(j) == callsOf[j][Len(callsOf[j])]

SameStatus(m, c) == m.Status = c.Status /\ m.Result = c.Result

\* a step that is a NotifyJobStatus call for job j
CallFor(j) == Len(callsOf'[j]) > Len(callsOf[j])

\* C28 as stated: the cached status of every job NotifyJobStatus was called for
\* is the status and result of the most recent call for it.
C28_CacheIsLastCall ==
  \A j \in WsJobs :
    callsOf[j] # << >> =>
      j \in DOMAIN jobStatuses /\ SameStatus(jobStatuses[j], LastCall(j))

\* C28, amended: the cached status of a job is the status and result of the most
\* recent call for it whose message json.Marshal accepted, and there is none when
\* no such call was made; a call whose message cannot be marshalled leaves the
\* whole cache as it was, and a call for job j leaves the entries of every other
\* job as they were.
C28_CacheIsLastMarshalledCall ==
  /\ [](\A j \in WsJobs :
          IF published[j] = << >>
            THEN j \notin DOMAIN jobStatuses
            ELSE /\ j \in DOMAIN jobStatuses
                 /\ SameStatus(jobStatuses[j], LastPublished(j))
                 /\ jobStatuses[j].JobID = j)
  /\ [][\A j \in WsJobs :
          CallFor(j) =>
            /\ MarshalFails(callsOf'[j][Len(callsOf'[j])]) => jobStatuses' = jobStatuses
            /\ ~MarshalFails(callsOf'[j][Len(callsOf'[j])]) =>
                 SameStatus(jobStatuses'[j], callsOf'[j][Len(callsOf'[j])])
            /\ \A o \in WsJobs \ {j} :
                 /\ o \in DOMAIN jobStatuses' <=> o \in DOMAIN jobStatuses
                 /\ o \in DOMAIN jobStatuses => jobStatuses'[o] = jobStatuses[o]]_vars

\* two calls with different statuses and results were made for one job, both
\* marshalled, and the cache holds the status and result of the second
C28_Witness ==
  \E j \in WsJobs :
    /\ Len(callsOf[j]) = 2
    /\ ~MarshalFails(callsOf[j][1])
    /\ ~MarshalFails(callsOf[j][2])
    /\ callsOf[j][1].Status # callsOf[j][2].Status
    /\ callsOf[j][1].Result # callsOf[j][2].Result
    /\ SameStatus(jobStatuses[j], callsOf[j][2])
    /\ \A n \in Notifiers : npc[n] = "idle"
    /\ hubq = << >>

\* C38: when calls of NotifyJobStatus for one job overlapped and all have
\* returned, their broadcasts delivered, the message written last to a session
\* that was connected when they were made is the status the cache holds for the
\* job, which is what a session connecting now is replayed.
C38_CacheIsLastReceived ==
  \A s \in Sessions :
    (/\ spc[s] = "connected"
     /\ NoCallRunning
     /\ HeardKs(s) # {}
     /\ \E k \in HeardKs(s) : <<sjob[s], k>> \notin seq) =>
       /\ output[s] # << >>
       /\ <<output[s][Len(output[s])]>> = ReplayFor(jobStatuses, sjob[s])

StillSubscribed(s) == spc[s] \in {"registered", "connected"}

NextWeb ==
  \/ \E c \in WebClients : createJob(c)
  \/ \E c \in WebClients, ok \in BOOLEAN : PostRandomText(c, ok)
  \/ \E c \in WebClients : createJobResponse(c)
  \/ BullTake
  \/ \E out \in WebOutcomes : processRandomTextJob(out)
  \/ GatewayOnCompleted
  \/ GatewayOnFailed
  \/ \E c \in WebClients : SocketReceive(c)

SpecWeb == Init /\ [][NextWeb]_vars

\* The HTTP request is answered, Bull runs every waiting job, the processor's
\* promise settles, the gateway's listeners run and Socket.IO delivers what was
\* emitted.  Creating a job is the user's choice and has no fairness condition.
WebFairness ==
  /\ \A c \in WebClients :
       /\ WF_vars(\E ok \in BOOLEAN : PostRandomText(c, ok))
       /\ WF_vars(createJobResponse(c))
       /\ WF_vars(SocketReceive(c))
  /\ WF_vars(BullTake)
  /\ WF_vars(\E out \in WebOutcomes : processRandomTextJob(out))
  /\ WF_vars(GatewayOnCompleted)
  /\ WF_vars(GatewayOnFailed)

SpecWebFair == Init /\ [][NextWeb]_vars /\ WebFairness

(***************************************************************************)
(* Properties of the NestJS API and the web client                         *)
(***************************************************************************)
\* C18: a web client that is waiting for its job (loading) eventually stops
\* waiting with a result or an error message shown.
C18_ClientLeavesWaiting ==
  \A c \in WebClients :
    loading[c] ~> (~loading[c] /\ (resultValue[c] # "" \/ errorValue[c] # ""))

\* C33: the client whose POST was answered with job id, and to whose socket the
\* gateway has emitted job-completed:<id> with the text of the job, eventually
\* shows that text, whether the event reaches the socket before or after
\* createJob has set its once-listener.
C33_CreatorLearnsOutcome ==
  \A c \in WebClients, id \in WebJobIds, t \in WebTexts :
    (response[c] = id /\ \E i \in DOMAIN packets[c] : packets[c][i] = <<id, t>>)
      ~> (resultValue[c] = t)

(***************************************************************************)
(* Specification of the stored results: JobQueue next to AsynqQueue        *)
(***************************************************************************)
InitResults == InitQueue(MaxResultJobs, Loops) /\ InitHub /\ InitWs /\ InitWeb /\ InitSvc

NextResults ==
  \/ NextQueue
  \/ \E id \in AsynqTasks, info \in TaskInfos : AsynqTaskChanges(id, info)
  \/ \E id \in AsynqTasks, e \in BOOLEAN : AsynqGetJobResult(id, e)

SpecResults == InitResults /\ [][NextResults]_vars

\* the JobResult values GetJobResult returns: of JobQueue for every job id, with
\* the status of the job's record, and of AsynqQueue for the last call
ReturnedResults ==
  {[Status |-> StatusOf(jobKeys, id), Result |-> GetJobResult(id).res.Result,
    Error |-> GetJobResult(id).res.Error] : id \in {x \in JobIds : GetJobResult(x).err = ""}}
  \cup
  (IF aret.res # NilResult
     THEN {[Status |-> aret.res.Status,
            Result |-> IF aret.res.Result = "" THEN Nil ELSE aret.res.Result,
            Error |-> aret.res.Error]}
     ELSE {})

LengthQueries ==
  {[present |-> FALSE, value |-> << >>]} \cup
  {[present |-> TRUE, value |-> v] : v \in LengthValues}

NextHandlers ==
  \/ \E q \in LengthQueries, ok \in BOOLEAN : HandleRandomText(q, ok)
  \/ \E b \in RandomTextBodies, ok \in BOOLEAN : CreateRandomTextJob(b, ok)
  \/ \E src \in Sources, e \in EventHeaders, sig \in SigHeaders, p \in Payloads,
        fault \in Faults : HandleWebhook(src, e, sig, p, fault)
  \/ \E src \in Sources, sig \in SigHeaders, p \in Payloads, e \in EventHeaders,
        fault \in Faults : ReceiveWebhook(src, sig, p, e, fault)

SpecHandlers == Init /\ [][NextHandlers]_vars

\* the AddJob calls of the last request
AddJobCalls == SelectSeq(hlast.calls, LAMBDA c : c.op = "AddJob")

\* the source is missing or invalid, a header is missing, or the signature is not
\* the digest of the body that was read
BadWebhook(req) ==
  \/ req.source = ""
  \/ req.source \notin DOMAIN Secrets
  \/ req.event = ""
  \/ req.signature = <<"">>
  \/ req.readOk /\ req.signature # <<Hmac(Secrets[req.source], req.payload)>>

\* every header is there and the body could not be read
Unreadable(req) ==
  req.source # "" /\ req.event # "" /\ req.signature # <<"">> /\ ~req.readOk

\* the AddJob call of HandleWebhook is the second call, after a CreateReceipt
\* that returned a receipt the repository holds, and its job has the type
\* process_webhook and the id of that receipt
JobOnlyForCreatedReceipt ==
  /\ Len(AddJobCalls) <= 1
  /\ AddJobCalls # << >> =>
       /\ hlast.calls[1].op = "CreateReceipt"
       /\ hlast.calls[1].ok
       /\ hlast.calls[2] = AddJobCalls[1]
       /\ AddJobCalls[1].arg.Type = JobTypeProcessWebhook
       /\ AddJobCalls[1].arg.Data.ReceiptID = hlast.calls[1].arg.ID
       /\ apiReceipts # << >>
       /\ apiReceipts[Len(apiReceipts)] = hlast.calls[1].arg
       /\ hlast.calls[1].arg.Source = hlast.req.source
       /\ hlast.calls[1].arg.Payload = hlast.req.payload
       /\ hlast.req.readOk
       /\ ~BadWebhook(hlast.req)

IsInteger(str) ==
  /\ Unsigned(str) # << >>
  /\ \A i \in DOMAIN Unsigned(str) : Unsigned(str)[i] \in DOMAIN DigitValue

IntegerOf(str) ==
  IF str[1] = "-" THEN 0 - DigitsValue(Unsigned(str)) ELSE DigitsValue(Unsigned(str))

\* C23 as stated: with length absent or an integer, one AddJob call with a
\* random_text job and the answer 202; else the answer 400 and no AddJob call.
C23_RandomTextAccepted ==
  hlast.handler = "HandleRandomText" =>
    IF ~hlast.req.length.present \/ IsInteger(hlast.req.length.value)
      THEN /\ Len(AddJobCalls) = 1
           /\ AddJobCalls[1].arg.Type = JobTypeRandomText
           /\ hlast.resp.code = 202
      ELSE /\ hlast.resp.code = 400
           /\ AddJobCalls = << >>

\* C23, amended: with length absent or an integer in the range of int, one
\* AddJob call with a random_text job of that length (100 when absent), answered
\* with 202 when the call succeeds and with 500 when it fails; else the answer
\* 400 and no AddJob call.
C23_RandomTextAcceptedWhenQueued ==
  hlast.handler = "HandleRandomText" =>
    LET q == hlast.req.length IN
      IF ~q.present \/ (IsInteger(q.value) /\ ~OutOfRange(Unsigned(q.value)))
        THEN /\ Len(AddJobCalls) = 1
             /\ hlast.calls = AddJobCalls
             /\ AddJobCalls[1].arg.Type = JobTypeRandomText
             /\ AddJobCalls[1].arg.Data.Length =
                  IF q.present THEN IntegerOf(q.value) ELSE 100
             /\ hlast.resp.code = IF AddJobCalls[1].ok THEN 202 ELSE 500
             /\ AddJobCalls[1].ok =>
                  enqueued # << >> /\ enqueued[Len(enqueued)] = AddJobCalls[1].arg
        ELSE /\ hlast.resp.code = 400
             /\ hlast.calls = << >>

\* a request without length was answered 202 after one AddJob call with length
\* 100, following a request with a length that is not an integer
C23_Witness ==
  /\ hlast.handler = "HandleRandomText"
  /\ ~hlast.req.length.present
  /\ hlast.resp.code = 202
  /\ Len(AddJobCalls) = 1
  /\ AddJobCalls[1].arg.Data.Length = 100
  /\ hn = 2
  /\ enqueued = <<AddJobCalls[1].arg>>

StoreCalls == SelectSeq(hlast.calls, LAMBDA c : c.op = "Store")

\* C24: ReceiveWebhook answers 200 with a warning and no job id exactly when
\* the receipt was stored and the AddJob call that followed failed; when the
\* receipt could not be stored the answer is an error and no AddJob call is
\* made.
C24_WarningIffStoredAndNotQueued ==
  hlast.handler = "ReceiveWebhook" =>
    /\ (hlast.resp.code = 200 /\ hlast.resp.warning # "" /\ hlast.resp.job_id = 0)
         <=> /\ Len(StoreCalls) = 1
             /\ StoreCalls[1].ok
             /\ whReceipts # << >>
             /\ whReceipts[Len(whReceipts)] = StoreCalls[1].arg
             /\ Len(AddJobCalls) = 1
             /\ ~AddJobCalls[1].ok
             /\ hlast.calls = <<StoreCalls[1], AddJobCalls[1]>>
    /\ (StoreCalls # << >> /\ ~StoreCalls[1].ok) =>
         /\ hlast.resp.code >= 400
         /\ hlast.resp.id = 0
         /\ AddJobCalls = << >>
    /\ (hlast.resp.code = 200 /\ hlast.resp.warning = "") =>
         /\ hlast.resp.job_id # 0
         /\ Len(AddJobCalls) = 1
         /\ AddJobCalls[1].ok

\* a webhook was stored as the second receipt, its AddJob call failed and the
\* answer is 200 with the receipt's id, a warning and no job id
C24_Witness ==
  /\ hlast.handler = "ReceiveWebhook"
  /\ hlast.resp.code = 200
  /\ hlast.resp.warning # ""
  /\ hlast.resp.job_id = 0
  /\ hlast.resp.id = 2
  /\ Len(whReceipts) = 2
  /\ Len(AddJobCalls) = 1
  /\ ~AddJobCalls[1].ok
  /\ AddJobCalls[1].arg.Data.WebhookID = 2

\* the two names of the random-text job type (go-bespin, go-bespin-api)
RandomTextTypes == {"random-text", JobTypeRandomText}

\* the length the last request asks for is an integer below 1
LengthBelowOne ==
  \/ /\ hlast.handler = "HandleRandomText"
     /\ hlast.req.length.present
     /\ IsInteger(hlast.req.length.value)
     /\ ~OutOfRange(Unsigned(hlast.req.length.value))
     /\ IntegerOf(hlast.req.length.value) < 1
  \/ /\ hlast.handler = "CreateRandomTextJob"
     /\ hlast.req.body.syntax
     /\ "length" \in DOMAIN hlast.req.body.fields
     /\ hlast.req.body.fields.length.kind = "number"
     /\ hlast.req.body.fields.length.value < 1

\* C40: every random-text job the handlers have put in the queue has a length
\* of at least 1, and a request for a length below 1 is answered with an error
\* and makes no AddJob call.
C40_LengthAtLeastOne ==
  /\ \A i \in DOMAIN enqueued :
       enqueued[i].Type \in RandomTextTypes => enqueued[i].Data.Length >= 1
  /\ LengthBelowOne => hlast.resp.code >= 400 /\ AddJobCalls = << >>

(***************************************************************************)
(* Specification of the two queues: JobQueue next to the worker's jobQueue *)
(***************************************************************************)
InitFifo == InitQueue(MaxFifoJobs, Loops) /\ InitHub /\ InitWs /\ InitWeb /\ InitSvc

NextFifo == NextQueue \/ NextWorker

SpecFifo == InitFifo /\ [][NextFifo]_vars

\* C34: when the handler returned an error for a job whose JobResult
\* StartProcessing has stored, the stored JobResult holds the text of that error
\* in Error, and GetJobResult of the job returns an error.
C34_HandlerErrorStored ==
  \A id \in DOMAIN wkResults :
    wkHandled[id] # "" =>
      /\ UnmarshalWorkerResult(wkResults[id]).Error = wkHandled[id]
      /\ WorkerGetJobResult(id).err # ""

====
